---- MODULE Spec2Model ----
(***************************************************************************)
(* A model of the RPFM table views, reference resolution and PackFile      *)
(* session handling (rpfm_ui/src/views/table/utils.rs,                     *)
(* rpfm_ui/src/app_ui/app_ui_extra.rs, rpfm_ui/src/app_ui/slots.rs,        *)
(* rpfm_lib/src/settings/mod.rs).                                          *)
(*                                                                         *)
(* Strings whose characters the code inspects (column names, cell texts)   *)
(* are sequences of one-character strings; path segments are atomic        *)
(* strings with to_lowercase given as a finite map.                        *)
(***************************************************************************)
EXTENDS Integers, Sequences, FiniteSets, TLC

VARIABLES
    open_packedfiles,   \* UI_STATE.open_packedfiles: the list of open views
    reference_data,     \* definition.get_reference_data() of the table being resolved
    ref_call,           \* the get_reference_data call that has just returned
    definition,         \* the Definition of the table shown in the table view
    table_model,        \* the QStandardItemModel of the table view: rows of items
    source,             \* the decoded table the view was loaded from, while unedited
    view_call,          \* the get_table_from_view call that has just returned
    table_call,         \* the Table::set_table_data call that has just returned
    main_window_enabled,       \* app_ui.main_window.is_enabled()
    packfile_actions_enabled,  \* the Save and Change PackFile Type actions are enabled
    ui,                        \* the handler the UI thread runs, and where it waits
    commands,                  \* CENTRAL_COMMAND: commands sent, not yet taken
    responses,                 \* CENTRAL_COMMAND: responses sent, not yet received
    pack_file,                 \* the PackFile the background thread holds in memory
    disk,                      \* the PackFiles on disk
    recent_files,              \* the "recent_files" setting
    timer_backup_autosave,     \* the autosave timer runs
    requests,                  \* the commands of the last handler and the responses it received
    request_count,             \* commands sent so far
    operation,                 \* the last open or save: what it found and how it ended
    codec_table,               \* the Table handed to the table codec
    codec_bytes,               \* the bytes of a table: encoded, or read from an entry
    codec_decoded,             \* the result of the last decode
    codec_encoded,             \* the bytes the decoded table was encoded to again
    entry_cache,               \* the payloads of the entries materialized so far, by key
    readers,                   \* the materialize requests of the readers, and where they are
    settings_file,             \* settings.ron on disk
    settings,                  \* the Settings in memory
    settings_call,             \* the Settings call that has just returned, and what was passed so far
    game_selected_group_enabled,   \* app_ui.game_selected_group.is_enabled()
    packfile_contents_read_only,   \* UI_STATE: the PackFile's tree is locked
    ui_call,                       \* the open or purge call that has just returned
    delete_call,                   \* the delete_rows call that has just returned
    column_sort_state,             \* the column a view is sorted by, and the order
    sort_indicator,                \* the column the header shows the sort indicator on
    sort_call                      \* the sort_column call that has just returned

refVars == <<open_packedfiles, reference_data, ref_call>>
viewVars == <<definition, table_model, source, view_call, table_call>>
sessVars == <<main_window_enabled, packfile_actions_enabled, ui, commands, responses,
              pack_file, disk, recent_files, timer_backup_autosave, requests,
              request_count, operation>>
codecVars == <<codec_table, codec_bytes, codec_decoded, codec_encoded>>
cacheVars == <<entry_cache, readers>>
settingsVars == <<settings_file, settings, settings_call>>
uiVars == <<game_selected_group_enabled, packfile_contents_read_only, ui_call>>
utilVars == <<delete_call, column_sort_state, sort_indicator, sort_call>>
libVars == <<codecVars, cacheVars, settingsVars, uiVars, utilVars>>
\* What the codec, the cache and the settings specifications leave alone.
codecRest == <<refVars, viewVars, sessVars, cacheVars, settingsVars, uiVars, utilVars>>
cacheRest == <<refVars, viewVars, sessVars, codecVars, settingsVars, uiVars, utilVars>>
settingsRest == <<refVars, viewVars, sessVars, codecVars, cacheVars, uiVars, utilVars>>
uiRest == <<reference_data, ref_call, viewVars, sessVars, codecVars, cacheVars, settingsVars,
            utilVars>>
utilRest == <<refVars, definition, source, view_call, table_call, sessVars, codecVars, cacheVars,
              settingsVars, uiVars>>
sortRest == <<refVars, viewVars, sessVars, codecVars, cacheVars, settingsVars, uiVars, delete_call>>
vars == <<refVars, viewVars, sessVars, libVars>>

(***************************************************************************)
(* Bounds of the model.                                                    *)
(***************************************************************************)
MaxViews == 2      \* open views at a time
MaxRows == 2       \* rows held by all open table views together

(***************************************************************************)
(* Generic helpers.                                                        *)
(***************************************************************************)
Range(s) == {s[i] : i \in DOMAIN s}

\* A map that keeps the value a key already has.
DropFirstInsert(m, k, v) == IF k \in DOMAIN m THEN m ELSE [x \in DOMAIN m \cup {k} |-> IF x = k THEN v ELSE m[x]]
\* BTreeMap::insert: a new key is added, an existing key's value is replaced.
Insert(m, k, v) == [x \in DOMAIN m \cup {k} |-> IF x = k THEN v ELSE m[x]]

\* A union in which, on a key of both, self's value stays.
AppendKeepSelf(self, other) == [x \in DOMAIN self \cup DOMAIN other |-> IF x \in DOMAIN self THEN self[x] ELSE other[x]]
\* BTreeMap::append: every entry of other moves into self; on a key of both,
\* other's value replaces self's.
BTreeAppend(self, other) == [x \in DOMAIN self \cup DOMAIN other |-> IF x \in DOMAIN other THEN other[x] ELSE self[x]]

\* [String]::join(sep)
RECURSIVE Join(_, _)
Join(strs, sep) ==
    IF strs = <<>> THEN <<>>
    ELSE IF Len(strs) = 1 THEN strs[1]
    ELSE strs[1] \o sep \o Join(Tail(strs), sep)

\* char::to_uppercase on the letters the model's names are written with.
ToUpper(c) ==
    CASE c = "k" -> "K" [] c = "e" -> "E" [] c = "y" -> "Y" [] c = "n" -> "N"
      [] c = "a" -> "A" [] c = "m" -> "M" [] c = "d" -> "D" [] c = "s" -> "S"
      [] c = "c" -> "C" [] OTHER -> c

\* str::to_lowercase on the path segments of the model.
to_lowercase(s) ==
    CASE s = "DB" -> "db" [] s = "Db" -> "db" [] OTHER -> s

\* format!("{}_tables", table)
TablesFolder(table) ==
    CASE table = "units" -> "units_tables" [] table = "factions" -> "factions_tables" [] OTHER -> "_tables"

(***************************************************************************)
(* clean_column_names: the first character and every character after an    *)
(* underscore are uppercased, underscores become spaces.                   *)
(***************************************************************************)
RECURSIVE CleanFrom(_, _, _)
CleanFrom(field_name, new_name, should_be_uppercase) ==
    IF field_name = <<>> THEN new_name
    ELSE LET character == Head(field_name) IN
         IF new_name = <<>> \/ should_be_uppercase
         THEN CleanFrom(Tail(field_name), Append(new_name, ToUpper(character)), FALSE)
         ELSE IF character = "_"
         THEN CleanFrom(Tail(field_name), Append(new_name, " "), TRUE)
         ELSE CleanFrom(Tail(field_name), Append(new_name, character), FALSE)

clean_column_names(field_name) == CleanFrom(field_name, <<>>, FALSE)

(***************************************************************************)
(* The referenced tables of the model: three string columns.               *)
(***************************************************************************)
ColKey == <<"k", "e", "y">>
ColName == <<"N", "a", "m", "e">>
ColDesc == <<"D", "e", "s", "c">>
TargetFields == <<ColKey, ColName, ColDesc>>

\* build_columns: the header of column i is the cleaned name of field i.
HeaderOf(fields) == [i \in DOMAIN fields |-> clean_column_names(fields[i])]

K1 == <<"K", "1">>
K2 == <<"K", "2">>
Foo == <<"F", "o", "o">>
Bar == <<"B", "a", "r">>
Dsc == <<"d">>
Space == <<" ">>
Keys == {K1, K2}
Names == {Foo, Bar}
TargetRows == {<<k, n, Dsc>> : k \in Keys, n \in Names}

PathUnits == <<"db", "units_tables", "data">>
PathUnitsMod == <<"DB", "units_tables", "mod">>
PathFactions == <<"db", "factions_tables", "data">>
ViewPaths == {PathUnits, PathUnitsMod, PathFactions}

NoLookup == [some |-> FALSE, columns |-> <<>>]
Lookup(columns) == [some |-> TRUE, columns |-> columns]
LookupConfigs == {NoLookup, Lookup(<<ColName, ColDesc>>),
                  Lookup(<<ColDesc, ColName>>), Lookup(<<ColKey, ColName>>)}

\* definition.get_reference_data(): field index -> (table, column, lookup).
RefConfigs ==
    {[i \in {0} |-> [table |-> "units", column |-> ColKey, lookup |-> l]] : l \in LookupConfigs}
    \cup {[i \in {0, 2} |-> IF i = 0
                            THEN [table |-> "units", column |-> ColKey, lookup |-> Lookup(<<ColName>>)]
                            ELSE [table |-> "units", column |-> ColName, lookup |-> NoLookup]]}

(***************************************************************************)
(* A view is [path, view, header, rows]: view is the ViewType/View variant, *)
(* header and rows are the table model of a View::Table.                   *)
(***************************************************************************)
TableView(path, rows) == [path |-> path, view |-> "Table", header |-> HeaderOf(TargetFields), rows |-> rows]
ExternalView(path) == [path |-> path, view |-> "External", header |-> <<>>, rows |-> <<>>]

RECURSIVE TotalRows(_)
TotalRows(views) == IF views = <<>> THEN 0 ELSE Len(Head(views).rows) + TotalRows(Tail(views))

OpenPaths == {open_packedfiles[i].path : i \in DOMAIN open_packedfiles}

RemoveAt(s, position) == [i \in 1..(Len(s) - 1) |-> IF i < position THEN s[i] ELSE s[i + 1]]

(***************************************************************************)
(* get_reference_data, the scan of the open views (utils.rs 657-690).      *)
(***************************************************************************)
IsReferencedTablePath(path, table) ==
    /\ Len(path) = 3
    /\ to_lowercase(path[1]) = "db"
    /\ to_lowercase(path[2]) = TablesFolder(table)

\* The lookup string of one row: the texts of the columns whose header is one
\* of the lookup columns, taken in the model's column order, space-joined.
LookupValue(packed_file_view, row, lookup) ==
    IF lookup.some
    THEN LET columns == SelectSeq([x \in 1..Len(packed_file_view.header) |-> x],
                                  LAMBDA x: packed_file_view.header[x] \in Range(lookup.columns))
         IN Join([i \in 1..Len(columns) |-> packed_file_view.rows[row][columns[i]]], Space)
    ELSE <<>>

RECURSIVE ScanRows(_, _, _, _, _)
ScanRows(packed_file_view, column_index, lookup, row, acc) ==
    IF row > Len(packed_file_view.rows) THEN acc
    ELSE ScanRows(packed_file_view, column_index, lookup, row + 1,
                  Insert(acc, packed_file_view.rows[row][column_index],
                         LookupValue(packed_file_view, row, lookup)))

RECURSIVE ScanColumns(_, _, _, _, _)
ScanColumns(packed_file_view, column, lookup, column_index, acc) ==
    IF column_index > Len(packed_file_view.header) THEN acc
    ELSE ScanColumns(packed_file_view, column, lookup, column_index + 1,
                     IF packed_file_view.header[column_index] = column
                     THEN ScanRows(packed_file_view, column_index, lookup, 1, acc)
                     ELSE acc)

RECURSIVE ScanViews(_, _, _, _)
ScanViews(views, i, reference, acc) ==
    IF i > Len(views) THEN acc
    ELSE ScanViews(views, i + 1, reference,
                   IF /\ IsReferencedTablePath(views[i].path, reference.table)
                      /\ views[i].view = "Table"
                   THEN ScanColumns(views[i], clean_column_names(reference.column),
                                    reference.lookup, 1, acc)
                   ELSE acc)

dependency_data_visual(views, refs) ==
    [index \in DOMAIN refs |-> ScanViews(views, 1, refs[index], <<>>)]

(***************************************************************************)
(* get_reference_data, the merge with the backend's answer (692-707).      *)
(***************************************************************************)
ResponseError == [kind |-> "Error", data |-> <<>>]
ResponseDependencyData(d) == [kind |-> "BTreeMapI32DependencyData", data |-> d]

MergeReferenceData(views, refs, response) ==
    IF response.kind = "Error" THEN [kind |-> "Err", data |-> <<>>]
    ELSE [kind |-> "Ok",
          data |-> [index \in DOMAIN response.data |->
                       IF index \in DOMAIN refs
                       THEN [data |-> BTreeAppend(response.data[index].data,
                                                  dependency_data_visual(views, refs)[index])]
                       ELSE response.data[index]]]

\* The answers the backend may give for the dependency-sourced data.
DepData(index) ==
    IF index = 0
    THEN {[data |-> (K1 :> Foo) @@ (K2 :> <<>>)]}
    ELSE {[data |-> (Foo :> <<>>)]}

Responses(refs) ==
    {ResponseError} \cup
    {ResponseDependencyData(d) :
        d \in {f \in UNION {[S -> UNION {DepData(i) : i \in DOMAIN refs}] : S \in SUBSET DOMAIN refs} :
                  \A i \in DOMAIN f : f[i] \in DepData(i)}}

NoCall == [done |-> FALSE, response |-> ResponseError, result |-> [kind |-> "Err", data |-> <<>>]]

(***************************************************************************)
(* The table view: DecodedData, items and Definitions.                     *)
(*                                                                         *)
(* An f32 is held as its shortest decimal form, an integer count of        *)
(* 1/10000 (FloatUnit), which is exact for the values of the model.        *)
(***************************************************************************)
MaxFloat == 5        \* the largest fraction of the model's floats, in 1/10000
MaxTableRows == 2    \* rows of the table shown in the view
FloatUnit == 10 * 1000

\* Floats of four decimals around the rounding tie, and floats the display keeps.
F32Values == ((MaxFloat - 2)..MaxFloat) \cup {0, 0 - MaxFloat, 10 * MaxFloat}

\* The f32 nearest to n/10000 lies above n/10000 for these n (n % 10 = 5, 0 < n < 100):
\* 0.0005f32 = 0.0005000000237..., 0.0025f32 = 0.00249999994...
AboveTheTie == {5, 15, 35, 65, 85}

\* The number of digits format!("{}", data) prints after the '.', 0 when it prints none.
FractionDigits(data) ==
    LET fraction == (IF data < 0 THEN 0 - data ELSE data) % FloatUnit IN
    IF fraction = 0 THEN 0
    ELSE IF fraction % 10 # 0 THEN 4
    ELSE IF fraction % 100 # 0 THEN 3
    ELSE IF fraction % 1000 # 0 THEN 2
    ELSE 1

\* format!("{:.3}", data).parse::<f32>(): the exact binary value rounded to 3 decimals.
RoundTo3Decimals(data) ==
    LET magnitude == IF data < 0 THEN 0 - data ELSE data
        low == (magnitude \div 10) * 10
        last == magnitude % 10
        fraction == magnitude % 100
        rounded == IF last > 5 \/ (last = 5 /\ fraction \in AboveTheTie) THEN low + 10 ELSE low
    IN IF data < 0 THEN 0 - rounded ELSE rounded

\* get_item_from_decoded_data, the F32 arm (utils.rs 418-427): data_str[position..]
\* holds the '.' and the digits after it.
DisplayFloat(data) ==
    IF FractionDigits(data) > 0
    THEN IF 1 + FractionDigits(data) > 3 THEN RoundTo3Decimals(data) ELSE data
    ELSE data

\* QVariant and QStandardItem.
Variant(kind, value) == [kind |-> kind, value |-> value]
InvalidVariant == Variant("invalid", 0)
Item(check_state, data, sequence_data) ==
    [check_state |-> check_state, data |-> data, sequence_data |-> sequence_data]

Decoded(type, value) == [type |-> type, value |-> value]
StringTypes == {"StringU8", "StringU16", "OptionalStringU8", "OptionalStringU16"}
SequenceTypes == {"SequenceU16", "SequenceU32"}

\* serde_json::to_string / from_str of a nested table.
ToJson(table) == [json |-> table]
FromJson(text) == text.json

get_item_from_decoded_data(data) ==
    CASE data.type = "Boolean" ->
            Item(IF data.value THEN "Checked" ELSE "Unchecked", InvalidVariant, InvalidVariant)
      [] data.type = "F32" -> Item("Unchecked", Variant("float", DisplayFloat(data.value)), InvalidVariant)
      [] data.type = "I16" -> Item("Unchecked", Variant("int", data.value), InvalidVariant)
      [] data.type = "I32" -> Item("Unchecked", Variant("int", data.value), InvalidVariant)
      [] data.type = "I64" -> Item("Unchecked", Variant("longlong", data.value), InvalidVariant)
      [] data.type \in StringTypes -> Item("Unchecked", Variant("string", data.value), InvalidVariant)
      [] data.type \in SequenceTypes ->
            Item("Unchecked", Variant("string", "packedfile_editable_sequence"),
                 Variant("string", ToJson(data.value)))

\* Field: name, field type, default value (None or the schema's text).
None == [some |-> FALSE, text |-> ""]
Some(text) == [some |-> TRUE, text |-> text]
Field(name, field_type, default_value) ==
    [name |-> name, field_type |-> field_type, default_value |-> default_value]

\* str::parse::<i16|i32|i64|f32> on the default texts of the model's schemas.
ParseNumber(text) ==
    CASE text = "7" -> [ok |-> TRUE, value |-> 7]
      [] text = "-1" -> [ok |-> TRUE, value |-> 0 - 1]
      [] OTHER -> [ok |-> FALSE, value |-> 0]

TextLower(text) == CASE text = "True" -> "true" [] text = "TRUE" -> "true" [] OTHER -> text

\* Table::new(definition): a table with no rows.
NewTable(table_definition) == [definition |-> table_definition, entries |-> <<>>]

get_default_item_from_field(field) ==
    LET default_value == field.default_value
        number == IF default_value.some /\ ParseNumber(default_value.text).ok
                  THEN ParseNumber(default_value.text).value ELSE 0
    IN CASE field.field_type = "Boolean" ->
               Item(IF default_value.some /\ TextLower(default_value.text) = "true"
                    THEN "Checked" ELSE "Unchecked", InvalidVariant, InvalidVariant)
         [] field.field_type = "F32" -> Item("Unchecked", Variant("float", number * FloatUnit), InvalidVariant)
         [] field.field_type = "I16" -> Item("Unchecked", Variant("int", number), InvalidVariant)
         [] field.field_type = "I32" -> Item("Unchecked", Variant("int", number), InvalidVariant)
         [] field.field_type = "I64" -> Item("Unchecked", Variant("longlong", number), InvalidVariant)
         [] field.field_type \in StringTypes ->
               Item("Unchecked", Variant("string", IF default_value.some THEN default_value.text ELSE ""),
                    InvalidVariant)
         [] field.field_type \in SequenceTypes ->
               Item("Unchecked", Variant("string", "packedfile_editable_sequence"),
                    Variant("string", ToJson(NewTable(<<>>))))

\* get_new_row: one default item per field of the definition.
get_new_row(table_definition) ==
    [i \in 1..Len(table_definition) |-> get_default_item_from_field(table_definition[i])]

\* `as i16`
AsI16(value) == LET m == value % 65536 IN IF m >= 32768 THEN m - 65536 ELSE m

\* get_table_from_view, the DecodedData built for one field from its item (811-831).
DecodedFromItem(field, item) ==
    CASE field.field_type = "Boolean" -> Decoded("Boolean", item.check_state = "Checked")
      [] field.field_type = "F32" -> Decoded("F32", item.data.value)
      [] field.field_type = "I16" -> Decoded("I16", AsI16(item.data.value))
      [] field.field_type = "I32" -> Decoded("I32", item.data.value)
      [] field.field_type = "I64" -> Decoded("I64", item.data.value)
      [] field.field_type \in StringTypes -> Decoded(field.field_type, item.data.value)
      [] field.field_type \in SequenceTypes -> Decoded(field.field_type, FromJson(item.sequence_data.value))

\* Rows that leave the checkbox columns out.
EntriesSkippingBooleans(model, table_definition) ==
    [row \in 1..Len(model) |->
        LET columns == SelectSeq([c \in 1..Len(table_definition) |-> c],
                                 LAMBDA c: table_definition[c].field_type # "Boolean")
        IN [i \in 1..Len(columns) |-> DecodedFromItem(table_definition[columns[i]], model[row][columns[i]])]]
\* get_table_from_view, the rows built from the model (802-835).
EntriesFromView(model, table_definition) ==
    [row \in 1..Len(model) |->
        [column \in 1..Len(table_definition) |->
            DecodedFromItem(table_definition[column], model[row][column])]]

\* Table::set_table_data: rows of another width than the definition are refused.
set_table_data(table, entries) ==
    IF \E row \in DOMAIN entries : Len(entries[row]) # Len(table.definition)
    THEN [kind |-> "Err", error |-> "RowWidthMismatch", data |-> <<>>]
    ELSE [kind |-> "Ok", error |-> "", data |-> [table EXCEPT !.entries = entries]]

get_table_from_view(model, table_definition) ==
    set_table_data(NewTable(table_definition), EntriesFromView(model, table_definition))

\* The table view before any table is shown in it.
NoSource == [viewed_only |-> FALSE, data |-> <<>>]
NoResult == [kind |-> "None", error |-> "", data |-> <<>>]
NoViewCall == [done |-> FALSE, entries |-> <<>>, result |-> NoResult]
NoTableCall == [done |-> FALSE, rows |-> <<>>, result |-> NoResult]
ViewIdle ==
    /\ definition = <<>>
    /\ table_model = <<>>
    /\ source = NoSource
    /\ view_call = NoViewCall
    /\ table_call = NoTableCall

(***************************************************************************)
(* The PackFile session: the UI thread's handlers, the background thread   *)
(* and the two channels of CENTRAL_COMMAND between them.                   *)
(*                                                                         *)
(* A PackFile is a map from logical paths to the bytes of its entries; the *)
(* disk holds PackFiles by file name.  The background thread is outside    *)
(* the sources modelled here and is given by its contract.                 *)
(***************************************************************************)
MaxPaths == 2              \* PackFiles selected in one Open dialog
MaxRequests == 4           \* commands the UI sends in one run
MaxOpenPackedFiles == 1    \* PackedFile views open in the session
RecentFilesLimit == 10
AutosaveInterval == 10

NoEntries == [x \in {} |-> 0]
Missing == [exists |-> FALSE, valid |-> FALSE, entries |-> NoEntries]
Corrupt == [exists |-> TRUE, valid |-> FALSE, entries |-> NoEntries]
Valid(entries) == [exists |-> TRUE, valid |-> TRUE, entries |-> entries]

PackFilesOnDisk == {"a.pack", "b.pack", "bad.pack"}
SaveAsTargets == {"out.pack"}
Files == PackFilesOnDisk \cup SaveAsTargets
Bytes == {1, 2}
NewPackedFilePaths == {"p", "n"}
PFHFileTypes == {"Mod", "Movie"}

\* a.pack and b.pack both hold "p", with different bytes; bad.pack has a bad magic.
InitialDisk ==
    [f \in Files |->
        CASE f = "a.pack" -> Valid([x \in {"p", "q"} |-> 1])
          [] f = "b.pack" -> Valid([x \in {"p", "r"} |-> 2])
          [] f = "bad.pack" -> Corrupt
          [] OTHER -> Missing]

\* PackFile::new(): what the background thread holds before anything is opened.
NewPackFile == [file_path |-> "", entries |-> NoEntries, pfh_file_type |-> "Mod"]

\* QFileDialog::selected_files() of the Open dialog: distinct files, in the dialog's order.
Selections ==
    {s \in UNION {[1..n -> PackFilesOnDisk] : n \in 1..MaxPaths} :
        \A i, j \in DOMAIN s : i # j => s[i] # s[j]}
        \cup {<<path>> : path \in SaveAsTargets}

\* The selection from its last file to its first.
PathsReversed(selected_files) ==
    [index \in 1..Len(selected_files) |-> selected_files[Len(selected_files) + 1 - index]]
\* packfile_open_packfile: the paths pushed from the dialog's selection, index by index.
SelectedPaths(selected_files) ==
    [index \in 1..Len(selected_files) |-> selected_files[index]]

\* Path::is_file
is_file(path, files) == path \in DOMAIN files /\ files[path].exists

\* Settings::update_recent_files: the path moves to the front of the list.
FirstPosition(list, x) == CHOOSE i \in DOMAIN list : list[i] = x /\ \A j \in 1..(i - 1) : list[j] # x
\* The path put first without the one the list holds being removed.
PushKeepingOld(list, new_path) ==
    LET pushed == <<new_path>> \o list
    IN SubSeq(pushed, 1, IF Len(pushed) < RecentFilesLimit THEN Len(pushed) ELSE RecentFilesLimit)
update_recent_files(list, new_path) ==
    LET removed == IF new_path \in Range(list) THEN RemoveAt(list, FirstPosition(list, new_path)) ELSE list
        pushed == <<new_path>> \o removed
    IN SubSeq(pushed, 1, IF Len(pushed) < RecentFilesLimit THEN Len(pushed) ELSE RecentFilesLimit)

Command(kind, data) == [kind |-> kind, data |-> data]
Response(kind, data) == [kind |-> kind, data |-> data]
PackedFileView(path, data) == [kind |-> "PackedFile", path |-> <<path>>, data |-> data]

\* PackFile::open_packfiles: the entries of the PackFiles, a later one
\* replacing an earlier one's entry at the same logical path.
MergeEntries(earlier, later) ==
    [x \in (DOMAIN earlier) \cup (DOMAIN later) |-> IF x \in DOMAIN later THEN later[x] ELSE earlier[x]]
RECURSIVE MergedEntries(_, _)
MergedEntries(paths, files) ==
    IF paths = <<>> THEN NoEntries
    ELSE MergeEntries(MergedEntries(SubSeq(paths, 1, Len(paths) - 1), files),
                      files[paths[Len(paths)]].entries)
OpenedPackFile(paths, files) ==
    [file_path |-> IF Len(paths) = 1 THEN paths[1] ELSE "",
     entries |-> MergedEntries(paths, files),
     pfh_file_type |-> "Mod"]

\* The reference (vanilla) data of the Game Selected: "p" and "q" have a
\* counterpart there, "r" and "n" have none.
VanillaData == ("p" :> 1) @@ ("q" :> 2)
\* A new PackedFile is a DB table without rows.
EmptyTable == 0
\* PackFile::optimize: the entries that are byte for byte the reference's entry
\* at their path, and the DB tables without rows, are removed; the paths
\* removed are returned.
RemovedByOptimize(entries, vanilla) ==
    {x \in DOMAIN entries :
        \/ x \in DOMAIN vanilla /\ entries[x] = vanilla[x]
        \/ entries[x] = EmptyTable}
optimize(pack, vanilla) ==
    [pack_file |-> [pack EXCEPT !.entries =
                        [x \in DOMAIN pack.entries \ RemovedByOptimize(pack.entries, vanilla) |->
                            pack.entries[x]]],
     deleted |-> RemovedByOptimize(pack.entries, vanilla)]

\* The UI thread: the handler it runs and where the handler waits.
Idle == [pc |-> "idle", save_as |-> FALSE, index |-> 0, path |-> ""]
Panicked == [Idle EXCEPT !.pc = "panicked"]

\* What an open or a save found when it started.
InitialSnapshot ==
    [pack_file |-> NewPackFile, open_packedfiles |-> <<>>, recent_files |-> <<>>,
     timer_backup_autosave |-> FALSE, disk |-> InitialDisk]
NoSave == [saved |-> FALSE, path |-> "", entries |-> NoEntries, views |-> {}]
NoOperation ==
    [kind |-> "none", outcome |-> "none", quiet |-> TRUE, selected_files |-> <<>>,
     before |-> InitialSnapshot, last_save |-> NoSave, deleted |-> {}]

\* The session before any handler has run.
SessIdle ==
    /\ main_window_enabled = TRUE
    /\ packfile_actions_enabled = FALSE
    /\ ui = Idle
    /\ commands = <<>>
    /\ responses = <<>>
    /\ pack_file = NewPackFile
    /\ disk = InitialDisk
    /\ recent_files = <<>>
    /\ timer_backup_autosave = FALSE
    /\ requests = <<>>
    /\ request_count = 0
    /\ operation = NoOperation

(***************************************************************************)
(* The table codec: the Binary Field Codec and Table::decode/encode of     *)
(* rpfm_lib.  They are outside the sources modelled here and are given by  *)
(* their contract.  Bytes are numbers in 0..255; a cursor is the sequence  *)
(* of the bytes not read yet.                                              *)
(***************************************************************************)
MaxCodecRows == 2
MaxSequence == 2

IntegerWidth(field_type) ==
    CASE field_type = "I16" -> 2 [] field_type = "I32" -> 4 [] field_type = "I64" -> 8
CountWidth(field_type) == IF field_type = "SequenceU16" THEN 2 ELSE 4
OptionalTypes == {"OptionalStringU8", "OptionalStringU16"}
IntegerTypes == {"I16", "I32", "I64"}

\* A sequence field carries the Definition of its sub-tables.
SequenceField(name, field_type, sequence_definition) ==
    [name |-> name, field_type |-> field_type, default_value |-> None,
     definition |-> sequence_definition]

\* Little-endian two's complement in `width` bytes.
RECURSIVE encode_integer(_, _)
encode_integer(value, width) ==
    IF width = 0 THEN <<>>
    ELSE <<value % 256>> \o encode_integer((value - (value % 256)) \div 256, width - 1)

RECURSIVE decode_unsigned(_)
decode_unsigned(bytes) ==
    IF bytes = <<>> THEN 0 ELSE Head(bytes) + 256 * decode_unsigned(Tail(bytes))

RECURSIVE decode_signed(_)
decode_signed(bytes) ==
    IF Len(bytes) = 1 THEN (IF bytes[1] >= 128 THEN bytes[1] - 256 ELSE bytes[1])
    ELSE Head(bytes) + 256 * decode_signed(Tail(bytes))

\* The texts of the model in the narrow and in the wide encoding.
CodecTexts == {"", "a", "b"}
Utf8(text) == CASE text = "" -> <<>> [] text = "a" -> <<97>> [] text = "b" -> <<98>>
Utf16(text) == CASE text = "" -> <<>> [] text = "a" -> <<97, 0>> [] text = "b" -> <<98, 0>>
IsWide(field_type) == field_type \in {"StringU16", "OptionalStringU16"}
TextBytes(field_type, text) == IF IsWide(field_type) THEN Utf16(text) ELSE Utf8(text)
UnitWidth(field_type) == IF IsWide(field_type) THEN 2 ELSE 1

\* The outcome of reading from a cursor: the value and the cursor after it,
\* or the reason of the failure and the cursor where it happened.
Done(data, cursor) == [ok |-> TRUE, reason |-> "", data |-> data, cursor |-> cursor]
Failed(reason, data, cursor) == [ok |-> FALSE, reason |-> reason, data |-> data, cursor |-> cursor]
Skip(cursor, n) == SubSeq(cursor, n + 1, Len(cursor))
Take(cursor, n) == SubSeq(cursor, 1, n)

\* A length-prefixed string: the count of units, then the units.
encode_string(field_type, text) ==
    encode_integer(Len(TextBytes(field_type, text)) \div UnitWidth(field_type), 2)
        \o TextBytes(field_type, text)

decode_string(cursor, field_type) ==
    IF Len(cursor) < 2 THEN Failed("NotEnoughBytes", <<>>, cursor)
    ELSE LET size == decode_unsigned(Take(cursor, 2)) * UnitWidth(field_type)
             rest == Skip(cursor, 2)
         IN IF Len(rest) < size THEN Failed("NotEnoughBytes", <<>>, cursor)
            ELSE IF \E text \in CodecTexts : TextBytes(field_type, text) = Take(rest, size)
            THEN Done(Decoded(field_type,
                              CHOOSE text \in CodecTexts : TextBytes(field_type, text) = Take(rest, size)),
                      Skip(rest, size))
            ELSE Failed("InvalidEncoding", <<>>, cursor)

\* An empty optional string written with its presence flag set.
PresentEmptyString(field_type, text) == <<1>> \o encode_string(field_type, text)
\* An optional string: the presence flag, then the string when it is there;
\* the empty string is the absent one.
encode_optional_string(field_type, text) ==
    IF text = "" THEN <<0>> ELSE <<1>> \o encode_string(field_type, text)

\* The sub-tables that fit, as if no more had been declared.
ShorterSequence(field, rows) ==
    IF rows.ok \/ rows.reason = "NotEnoughBytes"
    THEN Done(Decoded(field.field_type, [definition |-> field.definition, entries |-> rows.data]),
              rows.cursor)
    ELSE rows
\* The value of a sequence field from the outcome of reading the declared
\* count of sub-tables: too few bytes for them is a SequenceLengthMismatch.
sequence_from_rows(field, rows) ==
    IF rows.ok
    THEN Done(Decoded(field.field_type, [definition |-> field.definition, entries |-> rows.data]),
              rows.cursor)
    ELSE IF rows.reason = "NotEnoughBytes"
    THEN Failed("SequenceLengthMismatch", <<>>, rows.cursor)
    ELSE rows

RECURSIVE decode_field(_, _)
RECURSIVE decode_row(_, _)
RECURSIVE decode_rows(_, _, _)
decode_field(cursor, field) ==
    LET field_type == field.field_type IN
    CASE field_type = "Boolean" ->
            IF Len(cursor) < 1 THEN Failed("NotEnoughBytes", <<>>, cursor)
            ELSE IF cursor[1] \notin {0, 1} THEN Failed("InvalidEncoding", <<>>, cursor)
            ELSE Done(Decoded(field_type, cursor[1] = 1), Skip(cursor, 1))
      [] field_type \in IntegerTypes ->
            IF Len(cursor) < IntegerWidth(field_type) THEN Failed("NotEnoughBytes", <<>>, cursor)
            ELSE Done(Decoded(field_type, decode_signed(Take(cursor, IntegerWidth(field_type)))),
                      Skip(cursor, IntegerWidth(field_type)))
      [] field_type \in StringTypes \ OptionalTypes -> decode_string(cursor, field_type)
      [] field_type \in OptionalTypes ->
            IF Len(cursor) < 1 THEN Failed("NotEnoughBytes", <<>>, cursor)
            ELSE IF cursor[1] \notin {0, 1} THEN Failed("InvalidEncoding", <<>>, cursor)
            ELSE IF cursor[1] = 0 THEN Done(Decoded(field_type, ""), Skip(cursor, 1))
            ELSE decode_string(Skip(cursor, 1), field_type)
      [] field_type \in SequenceTypes ->
            IF Len(cursor) < CountWidth(field_type) THEN Failed("NotEnoughBytes", <<>>, cursor)
            ELSE sequence_from_rows(field,
                    decode_rows(Skip(cursor, CountWidth(field_type)), field.definition,
                                decode_unsigned(Take(cursor, CountWidth(field_type)))))

\* One row: one field after the other over the one cursor, stopping at the
\* first failure.
decode_row(cursor, table_definition) ==
    IF table_definition = <<>> THEN Done(<<>>, cursor)
    ELSE LET first == decode_field(cursor, Head(table_definition)) IN
         IF ~first.ok THEN first
         ELSE LET rest == decode_row(first.cursor, Tail(table_definition)) IN
              IF ~rest.ok THEN rest ELSE Done(<<first.data>> \o rest.data, rest.cursor)

\* `count` rows; a failure reports the rows read before it and the cursor at
\* the row that failed.
decode_rows(cursor, table_definition, count) ==
    IF count = 0 THEN Done(<<>>, cursor)
    ELSE LET first == decode_row(cursor, table_definition) IN
         IF ~first.ok THEN Failed(first.reason, <<>>, cursor)
         ELSE LET rest == decode_rows(first.cursor, table_definition, count - 1) IN
              IF ~rest.ok THEN Failed(rest.reason, <<first.data>> \o rest.data, rest.cursor)
              ELSE Done(<<first.data>> \o rest.data, rest.cursor)

RECURSIVE encode_field(_)
RECURSIVE encode_rows(_)
encode_field(data) ==
    CASE data.type = "Boolean" -> <<IF data.value THEN 1 ELSE 0>>
      [] data.type \in IntegerTypes -> encode_integer(data.value, IntegerWidth(data.type))
      [] data.type \in StringTypes \ OptionalTypes -> encode_string(data.type, data.value)
      [] data.type \in OptionalTypes -> encode_optional_string(data.type, data.value)
      [] data.type \in SequenceTypes ->
            encode_integer(Len(data.value.entries), CountWidth(data.type))
                \o encode_rows(data.value.entries)

RECURSIVE encode_row(_)
encode_row(row) == IF row = <<>> THEN <<>> ELSE encode_field(Head(row)) \o encode_row(Tail(row))
encode_rows(rows) == IF rows = <<>> THEN <<>> ELSE encode_row(Head(rows)) \o encode_rows(Tail(rows))

\* Table::encode: the count of rows, then the rows.
encode(table) == encode_integer(Len(table.entries), 4) \o encode_rows(table.entries)

\* Table::decode: bytes left over after the last row are a failure too.
decode(table_definition, bytes) ==
    IF Len(bytes) < 4 THEN Failed("NotEnoughBytes", <<>>, bytes)
    ELSE LET rows == decode_rows(Skip(bytes, 4), table_definition, decode_unsigned(Take(bytes, 4))) IN
         IF ~rows.ok THEN Failed(rows.reason, <<>>, rows.cursor)
         ELSE IF rows.cursor # <<>> THEN Failed("TrailingBytes", <<>>, rows.cursor)
         ELSE Done([definition |-> table_definition, entries |-> rows.data], <<>>)

\* The codec before anything is encoded or decoded.
NoBytes == [origin |-> "none", definition |-> <<>>, data |-> <<>>]
NoDecode == [done |-> FALSE, result |-> Done(<<>>, <<>>)]
NoEncode == [done |-> FALSE, data |-> <<>>]
NoTable == [definition |-> <<>>, entries |-> <<>>]
CodecIdle ==
    /\ codec_table = NoTable
    /\ codec_bytes = NoBytes
    /\ codec_decoded = NoDecode
    /\ codec_encoded = NoEncode

(***************************************************************************)
(* Lazy materialization of the entries of a PackFile (rpfm_lib, outside    *)
(* the sources modelled here, given by its contract): an entry is read     *)
(* from its place on disk on the first request and kept in memory, in an   *)
(* arena indexed by a key derived from its path.                           *)
(***************************************************************************)
MaxReaders == 2

Readers == 1..MaxReaders

\* The entries on disk: two paths that differ in case only, and a third; each
\* compressed as runs <<count, byte>>, or stored as it is.
LazyPaths == {<<"db", "units">>, <<"DB", "units">>, <<"text", "names.loc">>}
OnDisk(path) ==
    CASE path = <<"db", "units">> -> [compressed |-> TRUE, raw |-> <<2, 7, 1, 9>>]
      [] path = <<"DB", "units">> -> [compressed |-> TRUE, raw |-> <<1, 7, 2, 9>>]
      [] path = <<"text", "names.loc">> -> [compressed |-> FALSE, raw |-> <<2, 7>>]

\* Decompression: every <<count, byte>> becomes `count` times the byte.
RECURSIVE decompress(_)
decompress(raw) ==
    IF Len(raw) < 2 THEN <<>>
    ELSE [i \in 1..raw[1] |-> raw[2]] \o decompress(SubSeq(raw, 3, Len(raw)))

\* The payload of an entry read from its place on disk.
materialize(path) ==
    IF OnDisk(path).compressed THEN decompress(OnDisk(path).raw) ELSE OnDisk(path).raw

\* A key that takes paths differing in case for one entry.
CaseFoldedKey(path) == [i \in DOMAIN path |-> to_lowercase(path[i])]
\* The stable key of an entry in the arena, derived from its path.
entry_key(path) == path

NotCached == [some |-> FALSE, data |-> <<>>]
Cached(data) == [some |-> TRUE, data |-> data]
ReaderIdle == [pc |-> "idle", path |-> <<>>, data |-> <<>>, from |-> "none"]

CacheIdle ==
    /\ entry_cache = [key \in LazyPaths |-> NotCached]
    /\ readers = [r \in Readers |-> ReaderIdle]

(***************************************************************************)
(* Settings (rpfm_lib/src/settings/mod.rs): three maps from keys to        *)
(* values, kept in settings.ron.  A string setting is the sequence of its  *)
(* tokens, so that the list of recent files is written and parsed.         *)
(***************************************************************************)
MYMOD_BASE_PATH == "mymods_base_path"
ZIP_PATH == "7zip_path"
\* The folder names of SUPPORTED_GAMES.
SupportedGames == {"three_kingdoms", "warhammer_2", "attila"}

TrueBoolKeys ==
    {"check_updates_on_start", "check_schema_updates_on_start", "check_template_updates_on_start",
     "use_lazy_loading", "expand_treeview_when_adding_items", "adjust_columns_to_content",
     "extend_last_column_on_tables", "enable_diagnostics_tool", "diagnostics_trigger_on_open",
     "diagnostics_trigger_on_table_edit"}
FalseBoolKeys ==
    {"start_maximized", "use_dark_theme", "hide_background_icon", "allow_editing_of_ca_packfiles",
     "optimize_not_renamed_packedfiles", "disable_uuid_regeneration_on_db_tables",
     "packfile_treeview_resize_to_fit", "disable_combos_on_tables", "tight_table_mode",
     "table_resize_on_edit", "tables_use_old_column_order", "check_for_missing_table_definitions",
     "enable_debug_menu", "spoof_ca_authoring_tool"}

\* Settings::new()
SettingsNew ==
    [paths |-> [key \in {MYMOD_BASE_PATH, ZIP_PATH} \cup SupportedGames |-> None],
     settings_string |->
        [key \in {"default_game", "language", "update_channel", "autosave_amount",
                  "autosave_interval", "font_name", "font_size", "recent_files"} |->
            CASE key = "default_game" -> <<"three_kingdoms">>
              [] key = "language" -> <<"English_en">>
              [] key = "update_channel" -> <<"stable">>
              [] key = "autosave_amount" -> <<"10">>
              [] key = "autosave_interval" -> <<"5">>
              [] key = "font_name" -> <<>>
              [] key = "font_size" -> <<>>
              [] key = "recent_files" -> <<"[", "]">>],
     settings_bool |-> [key \in TrueBoolKeys \cup FalseBoolKeys |-> key \in TrueBoolKeys]]

\* to_string_pretty(&recent_files): "[", every path followed by ",", "]".
RECURSIVE RonItems(_)
RonItems(list) == IF list = <<>> THEN <<>> ELSE <<Head(list), ",">> \o RonItems(Tail(list))
to_string_pretty(list) == <<"[">> \o RonItems(list) \o <<"]">>

\* from_str::<Vec<String>>: the paths between the brackets.
from_str(text) ==
    LET inner == SubSeq(text, 2, Len(text) - 1) IN
    IF /\ Len(text) >= 2
       /\ text[1] = "[" /\ text[Len(text)] = "]"
       /\ Len(inner) % 2 = 0
       /\ \A i \in DOMAIN inner : (i % 2 = 0) <=> (inner[i] = ",")
    THEN [ok |-> TRUE, list |-> [i \in 1..(Len(inner) \div 2) |-> inner[2 * i - 1]]]
    ELSE [ok |-> FALSE, list |-> <<>>]

\* settings.ron: not there, not a Settings, or the Settings written last.
NoSettings == [paths |-> <<>>, settings_string |-> <<>>, settings_bool |-> <<>>]
NoSettingsFile == [exists |-> FALSE, valid |-> FALSE, settings |-> NoSettings]
CorruptSettingsFile == [exists |-> TRUE, valid |-> FALSE, settings |-> NoSettings]
SettingsFile(written) == [exists |-> TRUE, valid |-> TRUE, settings |-> written]

\* Settings::load, the keys no longer needed are removed.
RemoveOutdated(map, defaults) == [key \in (DOMAIN map) \cap (DOMAIN defaults) |-> map[key]]
\* Every default put in the map, over what the map holds.
OverwriteWithDefaults(map, defaults) ==
    [key \in (DOMAIN map) \cup (DOMAIN defaults) |->
        IF key \in DOMAIN defaults THEN defaults[key] ELSE map[key]]
\* Settings::load, the missing keys are added with their defaults.
AddMissing(map, defaults) ==
    [key \in (DOMAIN map) \cup (DOMAIN defaults) |->
        IF key \in DOMAIN map THEN map[key] ELSE defaults[key]]

\* Settings::load(None)
load(file) ==
    IF ~file.exists THEN [ok |-> FALSE, error |-> "IOError", settings |-> SettingsNew]
    ELSE IF ~file.valid THEN [ok |-> FALSE, error |-> "RonError", settings |-> SettingsNew]
    ELSE [ok |-> TRUE, error |-> "",
          settings |->
            [paths |-> AddMissing(RemoveOutdated(file.settings.paths, SettingsNew.paths),
                                  SettingsNew.paths),
             settings_string |->
                AddMissing(RemoveOutdated(file.settings.settings_string, SettingsNew.settings_string),
                           SettingsNew.settings_string),
             settings_bool |->
                AddMissing(RemoveOutdated(file.settings.settings_bool, SettingsNew.settings_bool),
                           SettingsNew.settings_bool)]]

\* The Settings before any call.
NoSettingsCall ==
    [kind |-> "none", ok |-> TRUE, from_defaults |-> TRUE, persisted |-> TRUE, passed |-> <<>>,
     repeats |-> 0, failures |-> 0]
SettingsIdle ==
    /\ settings_file = NoSettingsFile
    /\ settings = SettingsNew
    /\ settings_call = NoSettingsCall

(***************************************************************************)
(* The open views (rpfm_ui/src/app_ui/app_ui_extra.rs): UI_STATE's list of *)
(* open PackedFileViews, each under the path it was opened for.  A path is *)
(* the sequence of its segments.  The tab bar, which shows or hides a view *)
(* of the list, is left out: no path depends on it.                        *)
(***************************************************************************)
MaxOpenViews == 2   \* views in the list at a time

RESERVED_NAME_EXTRA_PACKFILE == "extra_packfile.rpfm_reserved"
RESERVED_NAME_NOTES == "notes.rpfm_reserved"
RESERVED_NAME_SETTINGS == "settings.rpfm_reserved"
DECODER_EXTENSION == "-rpfm-decoder"

\* The files of the PackFile that are opened.
UiPaths ==
    {<<"DB", "units_tables", "data">>,
     <<"text", "db", "names.loc">>,
     <<"script", "readme.txt">>,
     <<"ui", "skin.unknown">>}

\* file.ends_with(".loc")
ends_with_loc(file) == file \in {"names.loc"}

\* PackedFileType::get_packed_file_type
get_packed_file_type(path) ==
    IF to_lowercase(path[1]) = "db" /\ Len(path) = 3 THEN "DB"
    ELSE IF ends_with_loc(path[Len(path)]) THEN "Loc"
    ELSE IF path[Len(path)] \in {"readme.txt"} THEN "Text"
    ELSE "Unknown"

View(kind, path) == [kind |-> kind, path |-> path]

\* open_packedfiles.iter().position(|x| *x.get_ref_path() == path)
ViewPositions(list, path) == {i \in DOMAIN list : list[i].path = path}
ViewPosition(list, path) ==
    CHOOSE i \in ViewPositions(list, path) : \A j \in ViewPositions(list, path) : i <= j
\* No view is ever found.
NeverOpen(list, path) == FALSE
\* open_packedfiles.iter().find(|x| *x.get_ref_path() == path).is_some()
IsOpen(list, path) == ViewPositions(list, path) # {}

starts_with(path, segment) == path # <<>> /\ path[1] = segment

\* The path the decoder of a file is looked for under.
fake_path(path) ==
    [i \in DOMAIN path |-> IF i = Len(path) THEN path[i] \o DECODER_EXTENSION ELSE path[i]]

\* purge_that_one_specifically, the loop over the views that are left: the
\* first segment is looked at, and the last one only when there is no first.
UsesSchema(path) ==
    IF Len(path) > 0
    THEN to_lowercase(path[1]) = "db"
    ELSE /\ Len(path) > 0
         /\ path[Len(path)] # ""
         /\ ends_with_loc(to_lowercase(path[Len(path)]))
enable_game_selected_menu(list) == \A i \in DOMAIN list : ~UsesSchema(list[i].path)

\* purge_that_one_specifically: the list and the Game Selected menu after it.
Purged(list, menu, path) ==
    IF IsOpen(list, path) /\ path # <<>>
    THEN LET left == RemoveAt(list, ViewPosition(list, path))
             enabled == /\ ~starts_with(path, RESERVED_NAME_EXTRA_PACKFILE)
                        /\ enable_game_selected_menu(left)
         IN [list |-> left, menu |-> menu \/ enabled, enabled |-> enabled]
    ELSE [list |-> list, menu |-> menu, enabled |-> FALSE]

\* The views of tables and Locs disable the Game Selected menu while open.
DisablesGameSelected(path) == get_packed_file_type(path) \in {"DB", "Loc"}

\* The call that has just returned: whether it focused an open view, enabled
\* the Game Selected menu, or created a view (for a purge: saved it).
NoUiCall == [kind |-> "none", focused |-> FALSE, enabled |-> FALSE, ok |-> TRUE]
UiCall(kind, focused, enabled, ok) ==
    [kind |-> kind, focused |-> focused, enabled |-> enabled, ok |-> ok]
UiIdle ==
    /\ game_selected_group_enabled = TRUE
    /\ packfile_contents_read_only = FALSE
    /\ ui_call = NoUiCall

(***************************************************************************)
(* The table view's utilities (rpfm_ui/src/views/table/utils.rs):          *)
(* delete_rows on the rows of a model, and sort_column on the sort state   *)
(* of a view.  A row of the model is numbered from 0, as in the code.      *)
(***************************************************************************)
MaxModelRows == 4     \* rows of the model rows are deleted from
MaxDeleteRows == 3    \* length of the list of rows passed to delete_rows

\* The row `row` of the model (model.item(row, column) for every column).
ItemsOfRow(model, row) == model[row + 1]

\* QStandardItemModel::removeRows(row, count): nothing is removed unless the
\* rows exist.
remove_rows(model, row, count) ==
    IF count <= 0 \/ row < 0 \/ row + count > Len(model)
    THEN model
    ELSE [i \in 1..(Len(model) - count) |-> IF i <= row THEN model[i] ELSE model[i + count]]

Reversed(s) == [i \in 1..Len(s) |-> s[Len(s) + 1 - i]]

\* rows.sort_by_key(|&y| Reverse(y)): the rows from the highest to the lowest.
RECURSIVE SortedDescending(_)
SortedDescending(rows) ==
    IF rows = <<>> THEN <<>>
    ELSE LET first == CHOOSE i \in DOMAIN rows :
                         /\ \A j \in DOMAIN rows : rows[j] <= rows[i]
                         /\ \A j \in 1..(i - 1) : rows[j] < rows[i]
         IN <<rows[first]>> \o SortedDescending(RemoveAt(rows, first))

\* delete_rows (146): the row closes the pack when it is not the one above
\* the last row, and not the first of the list.
ClosesPack(row, current_row_index, index) == (row # current_row_index - 1) /\ index # 0

\* delete_rows (139-158): the packs of consecutive rows, from the bottom up.
RECURSIVE SplitRows(_, _, _, _, _, _)
SplitRows(model, rows, index, rows_splitted, current_row_pack, current_row_index) ==
    IF index = Len(rows)
    THEN Append(rows_splitted, [first |-> current_row_index, rows |-> Reversed(current_row_pack)])
    ELSE LET row == rows[index + 1]
             closes == ClosesPack(row, current_row_index, index)
         IN SplitRows(model, rows, index + 1,
                      IF closes
                      THEN Append(rows_splitted,
                                  [first |-> current_row_index, rows |-> Reversed(current_row_pack)])
                      ELSE rows_splitted,
                      Append(IF closes THEN <<>> ELSE current_row_pack, ItemsOfRow(model, row)),
                      row)

\* delete_rows (161-163): every pack is removed from the model.
RECURSIVE RemovePacks(_, _)
RemovePacks(model, rows_splitted) ==
    IF rows_splitted = <<>> THEN model
    ELSE RemovePacks(remove_rows(model, Head(rows_splitted).first, Len(Head(rows_splitted).rows)),
                     Tail(rows_splitted))

\* delete_rows(model, rows): the model after it, and the packs returned.
delete_rows(model, rows) ==
    LET rows_splitted == SplitRows(model, SortedDescending(rows), 0, <<>>, <<>>, -2) IN
    [model |-> RemovePacks(model, rows_splitted), result |-> Reversed(rows_splitted)]

NoDeleteCall == [done |-> FALSE, rows |-> <<>>, before |-> <<>>, result |-> <<>>]

\* The sort state of a view: the column sorted by, or -1, and the order.
NoSortColumn == -1
MaxSortColumns == 3   \* columns of the table view

\* The order of the stored column, whatever the column clicked.
StoredOrder(sort_data, column) == sort_data[2]
\* sort_column (779): the order so far, 0 for a column other than the stored one.
old_order_of(sort_data, column) == IF sort_data[1] = column THEN sort_data[2] ELSE 0

\* sort_column(table_view, column, column_sort_state): the state after it,
\* and whether the sort indicator of the header is cleared.
sort_column(column, sort_data) ==
    LET old_order == old_order_of(sort_data, column) IN
    IF old_order < 2
    THEN [sort_data |-> IF old_order + 1 = 0
                        THEN <<NoSortColumn, old_order + 1>>
                        ELSE <<column, old_order + 1>>,
          needs_cleaning |-> FALSE]
    ELSE [sort_data |-> <<NoSortColumn, -1>>, needs_cleaning |-> TRUE]

NoSortCall == [done |-> FALSE, column |-> NoSortColumn, before |-> <<NoSortColumn, 0>>]

UtilIdle ==
    /\ delete_call = NoDeleteCall
    /\ column_sort_state = <<NoSortColumn, 0>>
    /\ sort_indicator = NoSortColumn
    /\ sort_call = NoSortCall

LibIdle == CodecIdle /\ CacheIdle /\ SettingsIdle /\ UiIdle /\ UtilIdle

(***************************************************************************)
(* Actions of the reference-resolution specification.                      *)
(***************************************************************************)
RefInit ==
    /\ LibIdle
    /\ open_packedfiles = <<>>
    /\ reference_data \in RefConfigs
    /\ ref_call = NoCall
    /\ ViewIdle
    /\ SessIdle

\* A table is opened in a view: load_data fills the model with its rows.
RefOpenTable ==
    \E path \in ViewPaths \ OpenPaths :
    \E rows \in UNION {[1..n -> TargetRows] : n \in 0..MaxRows} :
        /\ Len(open_packedfiles) < MaxViews
        /\ TotalRows(open_packedfiles) + Len(rows) <= MaxRows
        /\ open_packedfiles' = Append(open_packedfiles, TableView(path, rows))
        /\ ref_call' = NoCall
        /\ UNCHANGED <<reference_data, viewVars, sessVars, libVars>>

\* A file is opened in a view that is not a table view.
RefOpenExternal ==
    \E path \in ViewPaths \ OpenPaths :
        /\ Len(open_packedfiles) < MaxViews
        /\ open_packedfiles' = Append(open_packedfiles, ExternalView(path))
        /\ ref_call' = NoCall
        /\ UNCHANGED <<reference_data, viewVars, sessVars, libVars>>

\* The user edits the key or the name cell of a row of an open table.
RefEditCell ==
    \E i \in DOMAIN open_packedfiles :
    \E row \in DOMAIN open_packedfiles[i].rows :
    \E cell \in ({1} \X Keys) \cup ({2} \X Names) :
        /\ open_packedfiles[i].rows[row][cell[1]] # cell[2]
        /\ open_packedfiles' = [open_packedfiles EXCEPT ![i].rows[row][cell[1]] = cell[2]]
        /\ ref_call' = NoCall
        /\ UNCHANGED <<reference_data, viewVars, sessVars, libVars>>

\* purge_that_one_specifically: the view is removed from the list.
RefCloseView ==
    \E position \in DOMAIN open_packedfiles :
        /\ open_packedfiles' = RemoveAt(open_packedfiles, position)
        /\ ref_call' = NoCall
        /\ UNCHANGED <<reference_data, viewVars, sessVars, libVars>>

GetReferenceData ==
    \E response \in Responses(reference_data) :
        /\ ~ref_call.done
        /\ ref_call' = [done |-> TRUE, response |-> response,
                        result |-> MergeReferenceData(open_packedfiles, reference_data, response)]
        /\ UNCHANGED <<open_packedfiles, reference_data, viewVars, sessVars, libVars>>

RefNext ==
    \/ RefOpenTable
    \/ RefOpenExternal
    \/ RefEditCell
    \/ RefCloseView
    \/ GetReferenceData

RefSpec == RefInit /\ [][RefNext]_vars

(***************************************************************************)
(* The table-view specification: a table is loaded into the view, edited,  *)
(* and read back.                                                          *)
(***************************************************************************)
DefFloat == <<Field("value", "F32", None)>>
DefMixed == <<Field("flag", "Boolean", Some("True")), Field("cost", "F32", Some("7"))>>
DefStrings == <<Field("key", "StringU8", Some("x")), Field("count", "I16", Some("x")),
                Field("note", "OptionalStringU8", None)>>
DefWide == <<Field("id", "I32", Some("-1")), Field("big", "I64", None),
             Field("name", "StringU16", None), Field("opt", "OptionalStringU16", Some("x")),
             Field("sub", "SequenceU16", None)>>
ViewDefinitions == {DefFloat, DefMixed, DefStrings, DefWide}

\* The values a decoded cell of each type takes in the model.
ValuesOf(field_type) ==
    CASE field_type = "Boolean" -> BOOLEAN
      [] field_type = "F32" -> F32Values
      [] field_type = "I16" -> {0, 0 - 3}
      [] field_type = "I32" -> {70000}
      [] field_type = "I64" -> {0 - 9}
      [] field_type = "StringU8" -> {"", "a"}
      [] field_type = "StringU16" -> {"a", "b"}
      [] field_type \in StringTypes -> {""}
      [] field_type \in SequenceTypes -> {NewTable(<<>>)}

RECURSIVE RowsOf(_)
RowsOf(table_definition) ==
    IF table_definition = <<>> THEN {<<>>}
    ELSE {<<Decoded(Head(table_definition).field_type, v)>> \o rest :
            v \in ValuesOf(Head(table_definition).field_type),
            rest \in RowsOf(Tail(table_definition))}

TablesOf(table_definition) ==
    {[definition |-> table_definition, entries |-> entries] :
        entries \in UNION {[1..n -> RowsOf(table_definition)] : n \in 0..MaxTableRows}}

ViewInit ==
    /\ LibIdle
    /\ definition \in ViewDefinitions
    /\ table_model = <<>>
    /\ source = NoSource
    /\ view_call = NoViewCall
    /\ table_call = NoTableCall
    /\ open_packedfiles = <<>>
    /\ reference_data = <<>>
    /\ ref_call = NoCall
    /\ SessIdle

\* load_data (342-397): the model is cleared and filled row by row; an empty
\* table gets a default row that is removed again.
LoadedModel(data, table_definition) ==
    IF data.entries # <<>>
    THEN [row \in 1..Len(data.entries) |->
            [column \in 1..Len(data.entries[row]) |->
                get_item_from_decoded_data(data.entries[row][column])]]
    ELSE SubSeq(<<get_new_row(table_definition)>>, 2, 1)

\* The view is created by loading the table it shows (a later reload reaches
\* no state a first load does not reach).
ViewLoadData ==
    /\ source = NoSource /\ table_model = <<>>
    /\ \E data \in TablesOf(definition) :
        /\ table_model' = LoadedModel(data, definition)
        /\ source' = [viewed_only |-> TRUE, data |-> data]
        /\ view_call' = NoViewCall
        /\ table_call' = NoTableCall
        /\ UNCHANGED <<definition, refVars, sessVars, libVars>>

\* The user appends a default row (get_new_row) to the table.
ViewAppendRow ==
    /\ Len(table_model) < MaxTableRows
    /\ table_model' = Append(table_model, get_new_row(definition))
    /\ source' = NoSource
    /\ view_call' = NoViewCall
    /\ table_call' = NoTableCall
    /\ UNCHANGED <<definition, refVars, sessVars, libVars>>

\* The user edits one cell: a checkbox is toggled, another cell gets a new value.
EditedItem(field, item, value) ==
    IF field.field_type = "Boolean"
    THEN [item EXCEPT !.check_state = IF value THEN "Checked" ELSE "Unchecked"]
    ELSE IF field.field_type \in SequenceTypes
    THEN [item EXCEPT !.sequence_data = Variant("string", ToJson(value))]
    ELSE [item EXCEPT !.data.value = value]

ViewEditCell ==
    \E row \in DOMAIN table_model :
    \E column \in DOMAIN definition :
    \E value \in ValuesOf(definition[column].field_type) :
        /\ table_model' = [table_model EXCEPT ![row][column] =
                              EditedItem(definition[column], table_model[row][column], value)]
        /\ table_model' # table_model
        /\ source' = NoSource
        /\ view_call' = NoViewCall
        /\ table_call' = NoTableCall
        /\ UNCHANGED <<definition, refVars, sessVars, libVars>>

\* get_table_from_view on the view's model and definition.
ViewGetTable ==
    /\ ~view_call.done
    /\ view_call' = [done |-> TRUE,
                     entries |-> EntriesFromView(table_model, definition),
                     result |-> get_table_from_view(table_model, definition)]
    /\ table_call' = NoTableCall
    /\ UNCHANGED <<definition, table_model, source, refVars, sessVars, libVars>>

\* A caller builds a Table from rows of its own: the view's rows, one of them
\* possibly a value short or a value long.
ChangedRows(entries, row, change) ==
    [r \in DOMAIN entries |->
        IF r # row THEN entries[r]
        ELSE IF change = "drop" THEN SubSeq(entries[r], 1, Len(entries[r]) - 1)
        ELSE IF change = "extend" THEN Append(entries[r], entries[r][1])
        ELSE entries[r]]

ViewSetTableData ==
    \E row \in DOMAIN table_model :
    \E change \in {"keep", "drop", "extend"} :
        LET rows == ChangedRows(EntriesFromView(table_model, definition), row, change) IN
        /\ ~table_call.done
        /\ table_call' = [done |-> TRUE, rows |-> rows,
                          result |-> set_table_data(NewTable(definition), rows)]
        /\ view_call' = NoViewCall
        /\ UNCHANGED <<definition, table_model, source, refVars, sessVars, libVars>>

ViewNext ==
    \/ ViewLoadData
    \/ ViewAppendRow
    \/ ViewEditCell
    \/ ViewGetTable
    \/ ViewSetTableData

ViewSpec == ViewInit /\ [][ViewNext]_vars

(***************************************************************************)
(* Actions of the PackFile session specification.                          *)
(***************************************************************************)
SessInit ==
    /\ LibIdle
    /\ SessIdle
    /\ open_packedfiles = <<>>
    /\ reference_data = <<>>
    /\ ref_call = NoCall
    /\ ViewIdle

Snapshot ==
    [pack_file |-> pack_file, open_packedfiles |-> open_packedfiles,
     recent_files |-> recent_files, timer_backup_autosave |-> timer_backup_autosave,
     disk |-> disk]
\* The Save As that has just succeeded, if the last handler was one: the file
\* it wrote, and the entries and the open views it started with.
LastSave ==
    IF /\ operation.kind = "save"
       /\ operation.outcome = "Ok"
       /\ requests # <<>>
       /\ requests[Len(requests)] = [command |-> "SavePackFileAs", responses |-> <<"PackFileInfo">>]
    THEN [saved |-> TRUE, path |-> pack_file.file_path,
          entries |-> operation.before.pack_file.entries,
          views |-> {operation.before.open_packedfiles[i].path[1] :
                        i \in DOMAIN operation.before.open_packedfiles}]
    ELSE NoSave
Started(kind, selected_files) ==
    [kind |-> kind, outcome |-> "pending", quiet |-> commands = <<>> /\ responses = <<>>,
     selected_files |-> selected_files, before |-> Snapshot, last_save |-> LastSave,
     deleted |-> {}]
Ended(outcome) == [operation EXCEPT !.outcome = outcome]

\* A handler can start when the main window takes input and the UI thread is free.
CanStart(sends) ==
    /\ ui.pc = "idle"
    /\ main_window_enabled
    /\ request_count + sends <= MaxRequests

\* CENTRAL_COMMAND.send_message_qt, with the handler's log of requests.
send_message_qt(command, log) ==
    /\ commands' = Append(commands, command)
    /\ requests' = Append(log, [command |-> command.kind, responses |-> <<>>])
    /\ request_count' = request_count + 1

\* CENTRAL_COMMAND.recv_message_qt: the response is logged with the last request.
Received(response) ==
    [requests EXCEPT ![Len(requests)].responses = Append(@, response.kind)]

\* panic!(THREADS_COMMUNICATION_ERROR): the UI thread is gone.
Panic ==
    /\ ui' = Panicked
    /\ UNCHANGED <<main_window_enabled, packfile_actions_enabled, commands, request_count,
                   open_packedfiles, recent_files, timer_backup_autosave, operation>>

\* packfile_open_packfile and open_packfile up to the wait for the response
\* (are_you_sure is answered with yes, the dialog is accepted).
packfile_open_packfile ==
    \E selected_files \in Selections :
        LET pack_file_paths == SelectedPaths(selected_files) IN
        /\ CanStart(1)
        /\ operation' = Started("open", selected_files)
        /\ open_packedfiles' = <<>>
        /\ main_window_enabled' = FALSE
        /\ send_message_qt(Command("OpenPackFiles", pack_file_paths), <<>>)
        /\ recent_files' = IF Len(pack_file_paths) = 1
                           THEN update_recent_files(recent_files, pack_file_paths[1])
                           ELSE recent_files
        /\ timer_backup_autosave' = IF AutosaveInterval > 0 THEN TRUE ELSE timer_backup_autosave
        /\ ui' = [Idle EXCEPT !.pc = "open_packfile"]
        /\ UNCHANGED <<packfile_actions_enabled, responses, pack_file, disk,
                       reference_data, ref_call, viewVars, libVars>>

\* open_packfile from the response on (274-436).
open_packfile_response ==
    /\ ui.pc = "open_packfile"
    /\ responses # <<>>
    /\ responses' = Tail(responses)
    /\ requests' = Received(Head(responses))
    /\ \/ /\ Head(responses).kind = "PackFileInfo"
          /\ main_window_enabled' = TRUE
          /\ packfile_actions_enabled' = TRUE
          /\ ui' = Idle
          /\ operation' = Ended("Ok")
          /\ UNCHANGED <<commands, request_count, open_packedfiles, recent_files,
                         timer_backup_autosave>>
       \/ /\ Head(responses).kind = "Error"
          /\ main_window_enabled' = TRUE
          /\ ui' = Idle
          /\ operation' = Ended("Err")
          /\ UNCHANGED <<packfile_actions_enabled, commands, request_count, open_packedfiles,
                         recent_files, timer_backup_autosave>>
       \/ /\ Head(responses).kind \notin {"PackFileInfo", "Error"}
          /\ Panic
    /\ UNCHANGED <<pack_file, disk, reference_data, ref_call, viewVars, libVars>>

\* PackedFileView::save of the view at `index`, as back_to_back_end_all calls it:
\* the view's data is sent to the background thread.
SaveViewCommand(index) ==
    Command("SavePackedFileFromView",
            [path |-> open_packedfiles[index].path[1], data |-> open_packedfiles[index].data])

\* save_packfile up to its first wait (451-456).
save_packfile ==
    \E save_as \in BOOLEAN :
        /\ CanStart(Len(open_packedfiles) + 2)
        /\ packfile_actions_enabled
        /\ operation' = Started("save", <<>>)
        /\ main_window_enabled' = FALSE
        /\ IF open_packedfiles = <<>>
           THEN /\ send_message_qt(Command("GetPackFilePath", ""), <<>>)
                /\ ui' = [Idle EXCEPT !.pc = "save_packfile_path", !.save_as = save_as]
           ELSE /\ send_message_qt(SaveViewCommand(1), <<>>)
                /\ ui' = [Idle EXCEPT !.pc = "back_to_back_end_all", !.save_as = save_as, !.index = 1]
        /\ UNCHANGED <<packfile_actions_enabled, responses, pack_file, disk, recent_files,
                       timer_backup_autosave, refVars, viewVars, libVars>>

\* back_to_back_end_all (131-141) inside save_packfile (454): the next view is
\* saved, or the first error is returned by `?`.
back_to_back_end_all ==
    /\ ui.pc = "back_to_back_end_all"
    /\ responses # <<>>
    /\ responses' = Tail(responses)
    /\ \/ /\ Head(responses).kind = "Success"
          /\ IF ui.index < Len(open_packedfiles)
             THEN /\ send_message_qt(SaveViewCommand(ui.index + 1), Received(Head(responses)))
                  /\ ui' = [ui EXCEPT !.index = ui.index + 1]
             ELSE /\ send_message_qt(Command("GetPackFilePath", ""), Received(Head(responses)))
                  /\ ui' = [ui EXCEPT !.pc = "save_packfile_path"]
          /\ UNCHANGED <<main_window_enabled, operation>>
       \/ /\ Head(responses).kind = "Error"
          /\ requests' = Received(Head(responses))
          /\ ui' = Idle
          /\ operation' = Ended("Err")
          /\ UNCHANGED <<main_window_enabled, commands, request_count>>
       \/ /\ Head(responses).kind \notin {"Success", "Error"}
          /\ requests' = Received(Head(responses))
          /\ ui' = Panicked
          /\ UNCHANGED <<main_window_enabled, commands, request_count, operation>>
    /\ UNCHANGED <<packfile_actions_enabled, pack_file, disk, recent_files,
                   timer_backup_autosave, refVars, viewVars, libVars>>

\* save_packfile from the PackFile's path on (457-511): the Save As dialog is
\* shown for a PackFile without a file, and can be cancelled.
save_packfile_path ==
    /\ ui.pc = "save_packfile_path"
    /\ responses # <<>>
    /\ responses' = Tail(responses)
    /\ \/ /\ Head(responses).kind = "PathBuf"
          /\ IF ~is_file(Head(responses).data, disk) \/ ui.save_as
             THEN \/ \E path \in SaveAsTargets :
                        /\ send_message_qt(Command("SavePackFileAs", path), Received(Head(responses)))
                        /\ ui' = [ui EXCEPT !.pc = "save_packfile_response"]
                        /\ UNCHANGED <<main_window_enabled, operation>>
                  \/ /\ requests' = Received(Head(responses))
                     /\ main_window_enabled' = TRUE
                     /\ ui' = Idle
                     /\ operation' = Ended("Ok")
                     /\ UNCHANGED <<commands, request_count>>
             ELSE /\ send_message_qt(Command("SavePackFile", ""), Received(Head(responses)))
                  /\ ui' = [ui EXCEPT !.pc = "save_packfile_response"]
                  /\ UNCHANGED <<main_window_enabled, operation>>
       \/ /\ Head(responses).kind # "PathBuf"
          /\ requests' = Received(Head(responses))
          /\ ui' = Panicked
          /\ UNCHANGED <<main_window_enabled, commands, request_count, operation>>
    /\ UNCHANGED <<packfile_actions_enabled, pack_file, disk, recent_files,
                   timer_backup_autosave, refVars, viewVars, libVars>>

\* save_packfile from the response to SavePackFile or SavePackFileAs on (489-527).
save_packfile_response ==
    /\ ui.pc = "save_packfile_response"
    /\ responses # <<>>
    /\ responses' = Tail(responses)
    /\ requests' = Received(Head(responses))
    /\ \/ /\ Head(responses).kind \in {"PackFileInfo", "Error"}
          /\ main_window_enabled' = TRUE
          /\ ui' = Idle
          /\ operation' = Ended(IF Head(responses).kind = "Error" THEN "Err" ELSE "Ok")
       \/ /\ Head(responses).kind \notin {"PackFileInfo", "Error"}
          /\ ui' = Panicked
          /\ UNCHANGED <<main_window_enabled, operation>>
    /\ UNCHANGED <<packfile_actions_enabled, commands, request_count, pack_file, disk,
                   recent_files, timer_backup_autosave, refVars, viewVars, libVars>>

\* new_packed_file up to the wait for PackedFileExists (1876).
new_packed_file ==
    \E complete_path \in NewPackedFilePaths :
        /\ CanStart(2)
        /\ packfile_actions_enabled
        /\ send_message_qt(Command("PackedFileExists", complete_path), <<>>)
        /\ ui' = [Idle EXCEPT !.pc = "new_packed_file_exists", !.path = complete_path]
        /\ operation' = NoOperation
        /\ UNCHANGED <<main_window_enabled, packfile_actions_enabled, responses, pack_file, disk,
                       recent_files, timer_backup_autosave, refVars, viewVars, libVars>>

\* new_packed_file from the answer to PackedFileExists on (1877-1882).
new_packed_file_exists ==
    /\ ui.pc = "new_packed_file_exists"
    /\ responses # <<>>
    /\ responses' = Tail(responses)
    /\ \/ /\ Head(responses).kind = "Bool"
          /\ IF Head(responses).data
             THEN /\ requests' = Received(Head(responses))
                  /\ ui' = Idle
                  /\ UNCHANGED <<commands, request_count>>
             ELSE /\ send_message_qt(Command("NewPackedFile", ui.path), Received(Head(responses)))
                  /\ ui' = [ui EXCEPT !.pc = "new_packed_file_response"]
       \/ /\ Head(responses).kind # "Bool"
          /\ requests' = Received(Head(responses))
          /\ ui' = Panicked
          /\ UNCHANGED <<commands, request_count>>
    /\ UNCHANGED <<main_window_enabled, packfile_actions_enabled, pack_file, disk, recent_files,
                   timer_backup_autosave, operation, refVars, viewVars, libVars>>

\* new_packed_file from the answer to NewPackedFile on (1883-1893).
new_packed_file_response ==
    /\ ui.pc = "new_packed_file_response"
    /\ responses # <<>>
    /\ responses' = Tail(responses)
    /\ requests' = Received(Head(responses))
    /\ ui' = IF Head(responses).kind \in {"Success", "Error"} THEN Idle ELSE Panicked
    /\ UNCHANGED <<main_window_enabled, packfile_actions_enabled, commands, request_count,
                   pack_file, disk, recent_files, timer_backup_autosave, operation,
                   refVars, viewVars, libVars>>

\* packfile_change_packfile_type: the type is sent and the slot returns.
packfile_change_packfile_type ==
    \E packfile_type \in PFHFileTypes :
        /\ CanStart(1)
        /\ packfile_actions_enabled
        /\ send_message_qt(Command("SetPackFileType", packfile_type), <<>>)
        /\ operation' = NoOperation
        /\ UNCHANGED <<main_window_enabled, packfile_actions_enabled, ui, responses, pack_file,
                       disk, recent_files, timer_backup_autosave, refVars, viewVars, libVars>>

\* Every path of the response but the first.
TreePathsWithoutFirst(response) ==
    {[type |-> "File", path |-> x] :
        x \in response \ (IF response = {} THEN {} ELSE {CHOOSE x \in response : TRUE})}
\* The TreePathType::File of each path of the response (slots.rs 515).
TreePaths(response) == {[type |-> "File", path |-> x] : x \in response}

\* special_stuff_optimize_packfile up to the wait for the response (slots.rs
\* 503-512): with a PackedFile open a dialog is shown and nothing is sent.
special_stuff_optimize_packfile ==
    /\ CanStart(1)
    /\ packfile_actions_enabled
    /\ open_packedfiles = <<>>
    /\ operation' = Started("optimize", <<>>)
    /\ main_window_enabled' = FALSE
    /\ send_message_qt(Command("OptimizePackFile", ""), <<>>)
    /\ ui' = [Idle EXCEPT !.pc = "optimize_packfile"]
    /\ UNCHANGED <<packfile_actions_enabled, responses, pack_file, disk, recent_files,
                   timer_backup_autosave, refVars, viewVars, libVars>>

\* special_stuff_optimize_packfile from the response on (slots.rs 513-527): the
\* paths of the response are deleted from the tree view.
optimize_packfile_response ==
    /\ ui.pc = "optimize_packfile"
    /\ responses # <<>>
    /\ responses' = Tail(responses)
    /\ requests' = Received(Head(responses))
    /\ \/ /\ Head(responses).kind = "VecVecString"
          /\ operation' = [operation EXCEPT !.outcome = "Ok",
                                            !.deleted = TreePaths(Head(responses).data)]
          /\ main_window_enabled' = TRUE
          /\ ui' = Idle
       \/ /\ Head(responses).kind # "VecVecString"
          /\ ui' = Panicked
          /\ UNCHANGED <<main_window_enabled, operation>>
    /\ UNCHANGED <<packfile_actions_enabled, commands, request_count, pack_file, disk,
                   recent_files, timer_backup_autosave, refVars, viewVars, libVars>>

\* open_packedfile: a PackedFile that is not open yet gets a view with its data.
open_packedfile ==
    \E path \in DOMAIN pack_file.entries :
        /\ CanStart(0)
        /\ commands = <<>>
        /\ \A i \in DOMAIN open_packedfiles : open_packedfiles[i].path # <<path>>
        /\ Len(open_packedfiles) < MaxOpenPackedFiles
        /\ open_packedfiles' = Append(open_packedfiles, PackedFileView(path, pack_file.entries[path]))
        /\ operation' = NoOperation
        /\ UNCHANGED <<main_window_enabled, packfile_actions_enabled, ui, commands, responses,
                       pack_file, disk, recent_files, timer_backup_autosave, requests,
                       request_count, reference_data, ref_call, viewVars, libVars>>

\* The user edits the PackedFile shown in a view.
EditPackedFile ==
    \E i \in DOMAIN open_packedfiles :
    \E data \in Bytes :
        /\ CanStart(0)
        /\ data # open_packedfiles[i].data
        /\ open_packedfiles' = [open_packedfiles EXCEPT ![i].data = data]
        /\ operation' = NoOperation
        /\ UNCHANGED <<main_window_enabled, packfile_actions_enabled, ui, commands, responses,
                       pack_file, disk, recent_files, timer_backup_autosave, requests,
                       request_count, reference_data, ref_call, viewVars, libVars>>

\* The file without the payloads of its entries.
SaveEmptyPayloads(pack) == Valid([x \in DOMAIN pack.entries |-> 0])
\* PackFile::save: the file is written from the entries in memory, payloads
\* as they are.
save(pack) == Valid(pack.entries)

\* The background thread takes the next command and answers it.  A save can
\* fail; a failed open or save leaves the PackFile in memory and the files on
\* disk as they were.  SetPackFileType has no sender waiting: the thread
\* answers it or not.
background_thread ==
    /\ ui.pc # "panicked"
    /\ commands # <<>>
    /\ commands' = Tail(commands)
    /\ LET command == Head(commands) IN
       \/ /\ command.kind = "OpenPackFiles"
          /\ IF \A i \in DOMAIN command.data : disk[command.data[i]].valid
             THEN /\ pack_file' = OpenedPackFile(command.data, disk)
                  /\ responses' = Append(responses, Response("PackFileInfo", pack_file'))
             ELSE /\ responses' = Append(responses, Response("Error", "FormatError"))
                  /\ UNCHANGED pack_file
          /\ UNCHANGED disk
       \/ /\ command.kind = "SavePackedFileFromView"
          /\ \/ /\ pack_file' = [pack_file EXCEPT !.entries =
                                    MergeEntries(@, [x \in {command.data.path} |-> command.data.data])]
                /\ responses' = Append(responses, Response("Success", ""))
             \/ /\ responses' = Append(responses, Response("Error", "PackedFileSaveError"))
                /\ UNCHANGED pack_file
          /\ UNCHANGED disk
       \/ /\ command.kind = "GetPackFilePath"
          /\ responses' = Append(responses, Response("PathBuf", pack_file.file_path))
          /\ UNCHANGED <<pack_file, disk>>
       \/ /\ command.kind = "SavePackFile"
          /\ \/ /\ is_file(pack_file.file_path, disk)
                /\ disk' = [disk EXCEPT ![pack_file.file_path] = save(pack_file)]
                /\ responses' = Append(responses, Response("PackFileInfo", pack_file))
             \/ /\ responses' = Append(responses, Response("Error", "IOError"))
                /\ UNCHANGED disk
          /\ UNCHANGED pack_file
       \/ /\ command.kind = "SavePackFileAs"
          /\ \/ /\ disk' = [disk EXCEPT ![command.data] = save(pack_file)]
                /\ pack_file' = [pack_file EXCEPT !.file_path = command.data]
                /\ responses' = Append(responses, Response("PackFileInfo", pack_file'))
             \/ /\ responses' = Append(responses, Response("Error", "IOError"))
                /\ UNCHANGED <<pack_file, disk>>
       \/ /\ command.kind = "PackedFileExists"
          /\ responses' = Append(responses, Response("Bool", command.data \in DOMAIN pack_file.entries))
          /\ UNCHANGED <<pack_file, disk>>
       \/ /\ command.kind = "NewPackedFile"
          /\ IF command.data \in DOMAIN pack_file.entries
             THEN /\ responses' = Append(responses, Response("Error", "FileAlreadyInPackFile"))
                  /\ UNCHANGED pack_file
             ELSE /\ pack_file' = [pack_file EXCEPT !.entries =
                                      MergeEntries(@, [x \in {command.data} |-> EmptyTable])]
                  /\ responses' = Append(responses, Response("Success", ""))
          /\ UNCHANGED disk
       \/ /\ command.kind = "OptimizePackFile"
          /\ pack_file' = optimize(pack_file, VanillaData).pack_file
          /\ responses' = Append(responses,
                                 Response("VecVecString", optimize(pack_file, VanillaData).deleted))
          /\ UNCHANGED disk
       \/ /\ command.kind = "SetPackFileType"
          /\ pack_file' = [pack_file EXCEPT !.pfh_file_type = command.data]
          /\ \/ UNCHANGED responses
             \/ responses' = Append(responses, Response("Success", ""))
          /\ UNCHANGED disk
    /\ UNCHANGED <<main_window_enabled, packfile_actions_enabled, ui, recent_files,
                   timer_backup_autosave, requests, request_count, operation, refVars, viewVars, libVars>>

SessNext ==
    \/ packfile_open_packfile
    \/ open_packfile_response
    \/ save_packfile
    \/ back_to_back_end_all
    \/ save_packfile_path
    \/ save_packfile_response
    \/ new_packed_file
    \/ new_packed_file_exists
    \/ new_packed_file_response
    \/ packfile_change_packfile_type
    \/ special_stuff_optimize_packfile
    \/ optimize_packfile_response
    \/ open_packedfile
    \/ EditPackedFile
    \/ background_thread

SessSpec == SessInit /\ [][SessNext]_vars

(***************************************************************************)
(* The codec specification: a well-formed table is encoded, decoded and    *)
(* encoded again; the bytes of an entry are decoded and encoded again.     *)
(***************************************************************************)
CodecOptional == <<Field("note", "OptionalStringU8", None), Field("count", "I16", None)>>
CodecStrings == <<Field("key", "StringU8", None), Field("title", "OptionalStringU16", None),
                  Field("name", "StringU16", None)>>
CodecNumbers == <<Field("flag", "Boolean", None), Field("id", "I32", None),
                  Field("big", "I64", None)>>
CodecAmounts == <<Field("amount", "I32", None)>>
CodecSequence == <<SequenceField("items", "SequenceU16", CodecAmounts),
                   Field("flag", "Boolean", None)>>
CodecNotes == <<Field("note", "OptionalStringU8", None)>>
CodecNested == <<SequenceField("notes", "SequenceU32", CodecNotes)>>
CodecDefinitions == {CodecOptional, CodecStrings, CodecNumbers, CodecSequence, CodecNested}

\* The well-formed rows and tables of a Definition.
RECURSIVE CodecValuesOf(_)
RECURSIVE CodecRowsOf(_)
CodecValuesOf(field) ==
    CASE field.field_type = "OptionalStringU8" -> {"", "a"}
      [] field.field_type = "OptionalStringU16" -> {"", "b"}
      [] field.field_type \in SequenceTypes ->
            {[definition |-> field.definition, entries |-> entries] :
                entries \in UNION {[1..n -> CodecRowsOf(field.definition)] : n \in 0..MaxSequence}}
      [] OTHER -> ValuesOf(field.field_type)

CodecRowsOf(table_definition) ==
    IF table_definition = <<>> THEN {<<>>}
    ELSE {<<Decoded(Head(table_definition).field_type, v)>> \o rest :
            v \in CodecValuesOf(Head(table_definition)),
            rest \in CodecRowsOf(Tail(table_definition))}

CodecTablesOf(table_definition) ==
    {[definition |-> table_definition, entries |-> entries] :
        entries \in UNION {[1..n -> CodecRowsOf(table_definition)] : n \in 0..MaxCodecRows}}

\* The bytes of an entry holding n rows of CodecOptional with the note absent.
AbsentEntry(n) ==
    [origin |-> "entry", definition |-> CodecOptional,
     data |-> <<n, 0, 0, 0>> \o [i \in 1..(3 * n) |-> IF i % 3 = 2 THEN 5 ELSE 0]]

\* The bytes of an entry holding one row of CodecSequence: the declared count,
\* the bytes of `present` sub-tables, and what follows them.
SequenceEntry(declared, present, following) ==
    [origin |-> "entry", definition |-> CodecSequence,
     data |-> <<1, 0, 0, 0>> \o <<declared, 0>>
              \o [i \in 1..(4 * present) |-> IF i % 4 = 1 THEN 7 ELSE 0] \o following]

Entries ==
    {AbsentEntry(n) : n \in 1..MaxCodecRows}
        \cup {SequenceEntry(declared, present, following) :
                declared \in 0..(MaxSequence + 1), present \in 0..(MaxSequence + 1),
                following \in {<<>>, <<1>>, <<1, 0>>}}

CodecInit ==
    /\ \/ /\ codec_table \in UNION {CodecTablesOf(d) : d \in CodecDefinitions}
          /\ codec_bytes = NoBytes
       \/ /\ codec_table = NoTable
          /\ codec_bytes \in Entries
    /\ codec_decoded = NoDecode
    /\ codec_encoded = NoEncode
    /\ CacheIdle
    /\ SettingsIdle
    /\ UiIdle
    /\ UtilIdle
    /\ open_packedfiles = <<>>
    /\ reference_data = <<>>
    /\ ref_call = NoCall
    /\ ViewIdle
    /\ SessIdle

\* Table::encode of the table.
TableEncode ==
    /\ codec_table # NoTable
    /\ codec_bytes = NoBytes
    /\ codec_bytes' = [origin |-> "encode", definition |-> codec_table.definition,
                       data |-> encode(codec_table)]
    /\ UNCHANGED <<codec_table, codec_decoded, codec_encoded, codecRest>>

\* Table::decode of the bytes with their Definition.
TableDecode ==
    /\ codec_bytes # NoBytes
    /\ ~codec_decoded.done
    /\ codec_decoded' = [done |-> TRUE, result |-> decode(codec_bytes.definition, codec_bytes.data)]
    /\ UNCHANGED <<codec_table, codec_bytes, codec_encoded, codecRest>>

\* Table::encode of the table that was decoded.
TableEncodeDecoded ==
    /\ codec_decoded.done
    /\ codec_decoded.result.ok
    /\ ~codec_encoded.done
    /\ codec_encoded' = [done |-> TRUE, data |-> encode(codec_decoded.result.data)]
    /\ UNCHANGED <<codec_table, codec_bytes, codec_decoded, codecRest>>

CodecNext ==
    \/ TableEncode
    \/ TableDecode
    \/ TableEncodeDecoded

CodecSpec == CodecInit /\ [][CodecNext]_vars

(***************************************************************************)
(* The cache specification: readers ask for the payloads of entries at any *)
(* time; no write to the PackFile is in flight.                            *)
(***************************************************************************)
CacheInit ==
    /\ CacheIdle
    /\ CodecIdle
    /\ SettingsIdle
    /\ UiIdle
    /\ UtilIdle
    /\ open_packedfiles = <<>>
    /\ reference_data = <<>>
    /\ ref_call = NoCall
    /\ ViewIdle
    /\ SessIdle

\* A reader asks for an entry: a payload in the cache is returned as it is.
MaterializeRequest(r) ==
    \E path \in LazyPaths :
        /\ readers[r].pc \in {"idle", "returned"}
        /\ readers' = [readers EXCEPT ![r] =
                IF entry_cache[entry_key(path)].some
                THEN [pc |-> "returned", path |-> path, data |-> entry_cache[entry_key(path)].data,
                      from |-> "cache"]
                ELSE [pc |-> "read", path |-> path, data |-> <<>>, from |-> "disk"]]
        /\ UNCHANGED <<entry_cache, cacheRest>>

\* The reader found nothing in the cache and reads the entry from disk.
MaterializeRead(r) ==
    /\ readers[r].pc = "read"
    /\ readers' = [readers EXCEPT ![r].pc = "store", ![r].data = materialize(readers[r].path)]
    /\ UNCHANGED <<entry_cache, cacheRest>>

\* The reader puts what it read in the cache, replacing the entry's payload in
\* one step, and returns it.
MaterializeStore(r) ==
    /\ readers[r].pc = "store"
    /\ entry_cache' = [entry_cache EXCEPT ![entry_key(readers[r].path)] = Cached(readers[r].data)]
    /\ readers' = [readers EXCEPT ![r].pc = "returned"]
    /\ UNCHANGED cacheRest

CacheNext ==
    \E r \in Readers :
        \/ MaterializeRequest(r)
        \/ MaterializeRead(r)
        \/ MaterializeStore(r)

CacheSpec == CacheInit /\ [][CacheNext]_vars

(***************************************************************************)
(* The settings specification: settings.ron was written by this or another *)
(* version of the program, or by hand; it is loaded and saved.             *)
(***************************************************************************)
\* A map of a settings file: the defaults without the keys `missing`, with
\* the values `changed`, and with the keys of `outdated`.
FileMap(defaults, missing, changed, outdated) ==
    [key \in ((DOMAIN defaults) \ missing) \cup (DOMAIN outdated) |->
        IF key \in DOMAIN outdated THEN outdated[key]
        ELSE IF key \in DOMAIN changed THEN changed[key]
        ELSE defaults[key]]

SubMaps(map) == {[key \in keys |-> map[key]] : keys \in SUBSET (DOMAIN map)}

SettingsFiles ==
    {SettingsFile(
        [paths |-> FileMap(SettingsNew.paths, missing_paths, changed_paths, outdated_paths),
         settings_string |-> FileMap(SettingsNew.settings_string, missing_strings,
                                     changed_strings, outdated_strings),
         settings_bool |-> FileMap(SettingsNew.settings_bool, missing_bools,
                                   changed_bools, outdated_bools)]) :
        missing_paths \in SUBSET {"three_kingdoms"},
        changed_paths \in SubMaps((ZIP_PATH :> Some("/usr/bin/7z"))),
        outdated_paths \in SubMaps(("rome_1" :> None)),
        missing_strings \in SUBSET {"recent_files"},
        changed_strings \in SubMaps(("language" :> <<"Spanish_es">>)),
        outdated_strings \in SubMaps(("theme" :> <<"dark">>)),
        missing_bools \in SUBSET {"enable_diagnostics_tool"},
        changed_bools \in SubMaps(("use_dark_theme" :> TRUE)),
        outdated_bools \in SubMaps(("remember_window_state" :> TRUE))}

SettingsInit ==
    /\ settings_file \in SettingsFiles \cup {NoSettingsFile, CorruptSettingsFile}
    /\ settings = SettingsNew
    /\ settings_call = NoSettingsCall
    /\ CodecIdle
    /\ CacheIdle
    /\ UiIdle
    /\ UtilIdle
    /\ open_packedfiles = <<>>
    /\ reference_data = <<>>
    /\ ref_call = NoCall
    /\ ViewIdle
    /\ SessIdle

\* Settings::load(None), with the defaults taken when it fails (168).
SettingsLoad ==
    /\ settings' = load(settings_file).settings
    /\ settings_call' = [settings_call EXCEPT !.kind = "load", !.ok = load(settings_file).ok]
    /\ UNCHANGED <<settings_file, settingsRest>>

\* A setting is changed in memory.
SettingsEdit ==
    \E value \in BOOLEAN :
        /\ settings.settings_bool["start_maximized"] # value
        /\ settings' = [settings EXCEPT !.settings_bool["start_maximized"] = value]
        /\ settings_call' = [settings_call EXCEPT !.kind = "edit", !.ok = TRUE]
        /\ UNCHANGED <<settings_file, settingsRest>>

\* Settings::save: the file is created and written, or cannot be.
SettingsSave ==
    /\ \/ /\ settings_file' = SettingsFile(settings)
          /\ settings_call' = [settings_call EXCEPT !.kind = "save", !.ok = TRUE]
       \/ /\ settings_call' = [settings_call EXCEPT !.kind = "save", !.ok = FALSE]
          /\ UNCHANGED settings_file
    /\ UNCHANGED <<settings, settingsRest>>

SettingsNext ==
    \/ SettingsLoad
    \/ SettingsEdit
    \/ SettingsSave

SettingsSpec == SettingsInit /\ [][SettingsNext]_vars

(***************************************************************************)
(* The recent files specification: PackFiles are opened one after another  *)
(* and each one is passed to Settings::update_recent_files.                *)
(***************************************************************************)
MaxRecentPaths == 11   \* distinct PackFile paths passed, one more than the list keeps
MaxRepeats == 1        \* calls that pass a path passed before
MaxSaveFailures == 1   \* calls whose Settings::save fails

RecentPath(n) == "pack_" \o ToString(n) \o ".pack"

WithRecentFiles(base, text) == [base EXCEPT !.settings_string["recent_files"] = text]

\* The list of a Settings; get_recent_files.
get_recent_files(of) == from_str(of.settings_string["recent_files"])

\* Files written by the program from the defaults, and files edited by hand.
DefaultSettingsFiles == {NoSettingsFile, CorruptSettingsFile, SettingsFile(SettingsNew)}
EditedSettingsFiles ==
    {SettingsFile(WithRecentFiles(SettingsNew, to_string_pretty(<<RecentPath(1), RecentPath(1)>>))),
     SettingsFile(WithRecentFiles(SettingsNew, <<"[", RecentPath(1)>>))}

RecentInit ==
    /\ settings_file \in DefaultSettingsFiles \cup EditedSettingsFiles
    /\ settings = SettingsNew
    /\ settings_call = [NoSettingsCall EXCEPT !.from_defaults = settings_file \in DefaultSettingsFiles]
    /\ CodecIdle
    /\ CacheIdle
    /\ UiIdle
    /\ UtilIdle
    /\ open_packedfiles = <<>>
    /\ reference_data = <<>>
    /\ ref_call = NoCall
    /\ ViewIdle
    /\ SessIdle

\* The paths passed so far, the most recently passed first, each one once.
Passed(passed, new_path) == <<new_path>> \o SelectSeq(passed, LAMBDA path : path # new_path)

\* The paths a call is made with: one never passed, or one passed before (the
\* least recent, or the one in the middle, which is the most recent of one or two).
NewPaths ==
    LET passed == settings_call.passed IN
    {RecentPath(Len(passed) + 1) : n \in {m \in {1} : Len(passed) < MaxRecentPaths}}
    \cup {passed[i] : i \in {j \in {(Len(passed) + 1) \div 2, Len(passed)} :
                                /\ passed # <<>>
                                /\ settings_call.repeats < MaxRepeats}}

\* Settings::update_recent_files(new_path)
UpdateRecentFiles ==
    \E new_path \in NewPaths, saved \in BOOLEAN :
        LET loaded == load(settings_file).settings
            parsed == get_recent_files(loaded)
            updated == WithRecentFiles(loaded,
                          to_string_pretty(update_recent_files(parsed.list, new_path)))
        IN
        /\ settings_call.kind # "panic"
        /\ ~saved => settings_call.failures < MaxSaveFailures
        /\ IF ~parsed.ok
           THEN \* from_str(..).unwrap() panics
                /\ settings' = loaded
                /\ settings_call' = [settings_call EXCEPT !.kind = "panic", !.ok = FALSE]
                /\ UNCHANGED settings_file
           ELSE /\ settings' = updated
                /\ settings_file' = IF saved THEN SettingsFile(updated) ELSE settings_file
                /\ settings_call' =
                      [settings_call EXCEPT
                          !.kind = "update_recent_files",
                          !.ok = saved,
                          !.persisted = @ /\ saved,
                          !.passed = Passed(@, new_path),
                          !.repeats = IF new_path \in Range(settings_call.passed) THEN @ + 1 ELSE @,
                          !.failures = IF saved THEN @ ELSE @ + 1]
        /\ UNCHANGED settingsRest

RecentNext == UpdateRecentFiles

RecentSpec == RecentInit /\ [][RecentNext]_vars

(***************************************************************************)
(* The open views specification: files, the decoder, the dependency        *)
(* manager, the notes and the PackFile settings are opened and closed.     *)
(***************************************************************************)
UiInit ==
    /\ open_packedfiles = <<>>
    /\ UiIdle
    /\ UtilIdle
    /\ CodecIdle
    /\ CacheIdle
    /\ SettingsIdle
    /\ reference_data = <<>>
    /\ ref_call = NoCall
    /\ ViewIdle
    /\ SessIdle

\* A view is pushed to the list when its new_view returned Ok; a view of a
\* table or a Loc disables the Game Selected menu.
Opened(kind, path, list, menu, created) ==
    /\ created => Len(list) < MaxOpenViews
    /\ open_packedfiles' = IF created THEN Append(list, View(kind, path)) ELSE list
    /\ game_selected_group_enabled' =
          IF created /\ kind = "Internal" /\ DisablesGameSelected(path) THEN FALSE ELSE menu
    /\ UNCHANGED <<packfile_contents_read_only, uiRest>>

\* PackedFileDecoderView::new_view: the view is kept under the path the
\* decoder is looked for.
DecoderViewPath(path) == fake_path(path)
\* PackedFileExternalView::new_view: the view is kept under the file's path.
ExternalViewPath(path) == path

\* The view of the path is focused when it is open, and created when not.
FocusOrOpen(kind, call, path, view_path, created) ==
    IF IsOpen(open_packedfiles, path)
    THEN /\ ~created
         /\ ui_call' = UiCall(call, TRUE, FALSE, FALSE)
         /\ UNCHANGED <<open_packedfiles, game_selected_group_enabled,
                        packfile_contents_read_only, uiRest>>
    ELSE /\ ui_call' = UiCall(call, FALSE, FALSE, created)
         /\ Opened(kind, view_path, open_packedfiles, game_selected_group_enabled, created)

\* AppUI::open_packedfile(Some(path), is_preview, is_external)
AppUI_open_packedfile ==
    \E path \in UiPaths, is_external \in BOOLEAN, created \in BOOLEAN :
        /\ ~packfile_contents_read_only
        /\ (~is_external /\ get_packed_file_type(path) = "Unknown") => ~created
        /\ IF ~is_external
           THEN FocusOrOpen("Internal", "open_packedfile", path, path, created)
           ELSE LET purged == Purged(open_packedfiles, game_selected_group_enabled, path) IN
                /\ ui_call' = UiCall("open_packedfile", FALSE, purged.enabled, created)
                /\ Opened("External", ExternalViewPath(path), purged.list, purged.menu, created)

\* AppUI::open_decoder, with one file selected
open_decoder ==
    \E path \in UiPaths, created \in BOOLEAN :
        /\ ~packfile_contents_read_only
        /\ FocusOrOpen("Decoder", "open_decoder", fake_path(path), DecoderViewPath(path), created)

\* AppUI::open_dependency_manager
open_dependency_manager ==
    \E created \in BOOLEAN :
        /\ ~packfile_contents_read_only
        /\ FocusOrOpen("DependencyManager", "open_dependency_manager", <<>>, <<>>, created)

\* AppUI::open_notes
open_notes ==
    \E created \in BOOLEAN :
        /\ ~packfile_contents_read_only
        /\ FocusOrOpen("Notes", "open_notes", <<RESERVED_NAME_NOTES>>, <<RESERVED_NAME_NOTES>>,
                       created)

\* AppUI::open_packfile_settings
open_packfile_settings ==
    \E created \in BOOLEAN :
        /\ ~packfile_contents_read_only
        /\ FocusOrOpen("PackFileSettings", "open_packfile_settings",
                       <<RESERVED_NAME_SETTINGS>>, <<RESERVED_NAME_SETTINGS>>, created)

\* The paths of the views, open or not, that are purged.
PurgedPaths ==
    UiPaths \cup {fake_path(path) : path \in UiPaths}
    \cup {<<>>, <<RESERVED_NAME_NOTES>>, <<RESERVED_NAME_SETTINGS>>}

\* AppUI::purge_that_one_specifically(path, save_before_deleting)
purge_that_one_specifically ==
    \E path \in PurgedPaths, saved \in BOOLEAN :
        LET purged == Purged(open_packedfiles, game_selected_group_enabled, path) IN
        /\ ~saved => IsOpen(open_packedfiles, path)
        /\ open_packedfiles' = purged.list
        /\ game_selected_group_enabled' = purged.menu
        /\ ui_call' = UiCall("purge_that_one_specifically", FALSE, purged.enabled, saved)
        /\ UNCHANGED <<packfile_contents_read_only, uiRest>>

\* AppUI::purge_them_all(save_before_deleting): the save of a view may fail,
\* and then the call returns at once.
purge_them_all ==
    \E saved \in BOOLEAN :
        /\ ~saved => open_packedfiles # <<>>
        /\ ui_call' = UiCall("purge_them_all", FALSE, saved, saved)
        /\ IF saved
           THEN /\ open_packedfiles' = <<>>
                /\ game_selected_group_enabled' = TRUE
                /\ packfile_contents_read_only' = FALSE
           ELSE UNCHANGED <<open_packedfiles, game_selected_group_enabled,
                            packfile_contents_read_only>>
        /\ UNCHANGED uiRest

\* The tree of another PackFile is shown to add files from it: the tree of
\* the PackFile is locked until every view is purged.
lock_packfile_contents ==
    /\ ~packfile_contents_read_only
    /\ packfile_contents_read_only' = TRUE
    /\ ui_call' = UiCall("lock_packfile_contents", FALSE, FALSE, TRUE)
    /\ UNCHANGED <<open_packedfiles, game_selected_group_enabled, uiRest>>

UiNext ==
    \/ AppUI_open_packedfile
    \/ open_decoder
    \/ open_dependency_manager
    \/ open_notes
    \/ open_packfile_settings
    \/ purge_that_one_specifically
    \/ purge_them_all
    \/ lock_packfile_contents

UiSpec == UiInit /\ [][UiNext]_vars

(***************************************************************************)
(* The rows specification: delete_rows is called on a model of numbered    *)
(* rows with a list of rows of the model, in any order.                    *)
(***************************************************************************)
\* A model of n rows of one item each; the item of a row is its number.
ModelOfRows(n) == [i \in 1..n |-> <<i - 1>>]

RowLists(n) == UNION {[1..length -> 0..(n - 1)] : length \in 0..MaxDeleteRows}

RowsInit ==
    /\ \E n \in 0..MaxModelRows :
          /\ table_model = ModelOfRows(n)
          /\ \E rows \in RowLists(n) :
                delete_call = [NoDeleteCall EXCEPT !.rows = rows, !.before = ModelOfRows(n)]
    /\ column_sort_state = <<NoSortColumn, 0>>
    /\ sort_indicator = NoSortColumn
    /\ sort_call = NoSortCall
    /\ definition = <<>>
    /\ source = NoSource
    /\ view_call = NoViewCall
    /\ table_call = NoTableCall
    /\ open_packedfiles = <<>>
    /\ reference_data = <<>>
    /\ ref_call = NoCall
    /\ SessIdle
    /\ CodecIdle
    /\ CacheIdle
    /\ SettingsIdle
    /\ UiIdle

\* delete_rows(model, rows)
DeleteRows ==
    /\ ~delete_call.done
    /\ table_model' = delete_rows(table_model, delete_call.rows).model
    /\ delete_call' = [delete_call EXCEPT
                          !.done = TRUE,
                          !.result = delete_rows(table_model, delete_call.rows).result]
    /\ UNCHANGED <<utilRest, column_sort_state, sort_indicator, sort_call>>

RowsNext == DeleteRows

RowsSpec == RowsInit /\ [][RowsNext]_vars

(***************************************************************************)
(* The sort specification: the header of a table view is clicked, and      *)
(* sort_column is called with a column of the view or with no column.      *)
(***************************************************************************)
SortColumns == 0..(MaxSortColumns - 1)

SortInit ==
    /\ column_sort_state \in {<<NoSortColumn, 0>>, <<NoSortColumn, -1>>}
    /\ sort_indicator = NoSortColumn
    /\ sort_call = NoSortCall
    /\ delete_call = NoDeleteCall
    /\ ViewIdle
    /\ open_packedfiles = <<>>
    /\ reference_data = <<>>
    /\ ref_call = NoCall
    /\ SessIdle
    /\ CodecIdle
    /\ CacheIdle
    /\ SettingsIdle
    /\ UiIdle

\* The header shows the sort indicator on the column that was clicked.
HeaderClicked ==
    \E column \in SortColumns :
        /\ sort_indicator # column
        /\ sort_indicator' = column
        /\ sort_call' = [sort_call EXCEPT !.done = FALSE]
        /\ UNCHANGED <<column_sort_state, sortRest>>

\* sort_column(table_view, column, column_sort_state)
SortColumn ==
    \E column \in SortColumns \cup {NoSortColumn} :
        LET sorted == sort_column(column, column_sort_state) IN
        /\ column_sort_state' = sorted.sort_data
        /\ sort_indicator' = IF sorted.needs_cleaning THEN NoSortColumn ELSE sort_indicator
        /\ sort_call' = [done |-> TRUE, column |-> column, before |-> column_sort_state]
        /\ UNCHANGED sortRest

SortNext ==
    \/ HeaderClicked
    \/ SortColumn

SortSpec == SortInit /\ [][SortNext]_vars

(***************************************************************************)
(* The tab bar specification: the views of files of the PackFile with      *)
(* their tabs.  A view of the list has a tab in tab_bar_packed_file or is  *)
(* hidden; a tab carries a text; a view is a preview or a full view.       *)
(***************************************************************************)
\* The files of the PackFile that are opened: two tables of the same name,
\* and one whose name ends like the mark of a preview.
TabPaths ==
    {<<"db", "units_tables", "data">>,
     <<"db", "land_units_tables", "data">>,
     <<"db", "units_tables", "data (Preview)">>}

TabView(kind, path, is_preview) ==
    [kind |-> kind, path |-> path, is_preview |-> is_preview, tab |-> TRUE, text |-> ""]
NoView == [kind |-> "None", path |-> <<>>, is_preview |-> FALSE, tab |-> FALSE, text |-> ""]

\* path.join("/")
RECURSIVE join(_)
join(path) ==
    IF Len(path) = 0 THEN ""
    ELSE IF Len(path) = 1 THEN path[1]
    ELSE path[1] \o "/" \o join(Tail(path))

\* tab_bar_packed_file.remove_tab(index)
WithoutTab(view) == [view EXCEPT !.tab = FALSE, !.text = ""]

\* update_views_names (2219-2234): the visible tabs whose path ends in the name.
NameCount(list, name) ==
    Cardinality({i \in DOMAIN list :
                    /\ list[i].tab
                    /\ list[i].path # <<>>
                    /\ list[i].path[Len(list[i].path)] = name})

\* update_views_names (2236-2254): the text of the tab of a view.
TabText(list, view) ==
    (IF NameCount(list, view.path[Len(view.path)]) > 1
     THEN join(view.path)
     ELSE view.path[Len(view.path)])
    \o (IF view.is_preview THEN " (Preview)" ELSE "")

\* AppUI::update_views_names: a view without a tab has no text to set.
ViewsNamed(list) ==
    [i \in DOMAIN list |->
        IF /\ list[i].path # <<>>
           /\ NameCount(list, list[i].path[Len(list[i].path)]) > 0
           /\ list[i].tab
        THEN [list[i] EXCEPT !.text = TabText(list, list[i])]
        ELSE list[i]]

\* open_packedfile (1304-1310): the tabs of the previews of other files are closed.
PreviewsClosed(list, path) ==
    [i \in DOMAIN list |->
        IF list[i].path # path /\ list[i].is_preview /\ list[i].tab
        THEN WithoutTab(list[i])
        ELSE list[i]]

\* The view is marked whatever it is.
MarksAlways(has_tab, is_preview, view_is_preview) == TRUE
\* open_packedfile (1318): a full view with a tab is not made a preview.
MarksPreview(has_tab, is_preview, view_is_preview) ==
    ~(has_tab /\ is_preview /\ ~view_is_preview)

\* open_packedfile (1312-1333): the view that is open is shown and focused.
Focused(view, is_preview) ==
    [view EXCEPT !.is_preview = IF MarksPreview(view.tab, is_preview, view.is_preview)
                                THEN is_preview ELSE @,
                 !.tab = TRUE]

TabCall(kind, path, is_preview, is_external, found, created, named) ==
    [kind |-> kind, path |-> path, is_preview |-> is_preview, is_external |-> is_external,
     found |-> found, created |-> created, named |-> named]

TabInit ==
    /\ open_packedfiles = <<>>
    /\ UiIdle
    /\ UtilIdle
    /\ CodecIdle
    /\ CacheIdle
    /\ SettingsIdle
    /\ reference_data = <<>>
    /\ ref_call = NoCall
    /\ ViewIdle
    /\ SessIdle

\* AppUI::open_packedfile(Some(path), is_preview, is_external), with the tab
\* bar: the names of the tabs are updated unless a view could not be created.
open_packedfile_in_tab ==
    \E path \in TabPaths, is_preview \in BOOLEAN, is_external \in BOOLEAN, created \in BOOLEAN :
        LET closed == PreviewsClosed(open_packedfiles, path)
            found == IF IsOpen(closed, path) THEN closed[ViewPosition(closed, path)] ELSE NoView
            purged == IF is_external
                      THEN Purged(closed, game_selected_group_enabled, path)
                      ELSE [list |-> closed, menu |-> game_selected_group_enabled,
                            enabled |-> FALSE]
            kind == IF is_external THEN "External" ELSE "Internal"
            pushed == Append(purged.list,
                             TabView(kind, IF is_external THEN ExternalViewPath(path) ELSE path,
                                     IF is_external THEN FALSE ELSE is_preview))
        IN
        /\ ~packfile_contents_read_only
        /\ IF IsOpen(closed, path) /\ ~is_external
           THEN /\ ~created
                /\ open_packedfiles' =
                      ViewsNamed([closed EXCEPT ![ViewPosition(closed, path)] =
                                                    Focused(@, is_preview)])
                /\ ui_call' = TabCall("open_packedfile", path, is_preview, is_external,
                                      found, FALSE, TRUE)
                /\ UNCHANGED game_selected_group_enabled
           ELSE /\ created => Len(purged.list) < MaxOpenViews
                /\ open_packedfiles' =
                      IF created THEN ViewsNamed(pushed)
                      ELSE IF is_external THEN ViewsNamed(purged.list)
                      ELSE purged.list
                /\ game_selected_group_enabled' =
                      IF created /\ ~is_external /\ DisablesGameSelected(path)
                      THEN FALSE ELSE purged.menu
                /\ ui_call' = TabCall("open_packedfile", path, is_preview, is_external,
                                      found, created, created \/ is_external)
        /\ UNCHANGED <<packfile_contents_read_only, uiRest>>

\* AppUI::packed_file_view_hide(indexes): the tab of a view is closed, the
\* view stays in the list.
packed_file_view_hide ==
    \E i \in DOMAIN open_packedfiles :
        /\ open_packedfiles[i].tab
        /\ open_packedfiles' = [open_packedfiles EXCEPT ![i] = WithoutTab(@)]
        /\ ui_call' = TabCall("packed_file_view_hide", open_packedfiles[i].path, FALSE, FALSE,
                              NoView, FALSE, FALSE)
        /\ UNCHANGED <<game_selected_group_enabled, packfile_contents_read_only, uiRest>>

\* AppUI::update_views_names
update_views_names ==
    /\ open_packedfiles' = ViewsNamed(open_packedfiles)
    /\ ui_call' = TabCall("update_views_names", <<>>, FALSE, FALSE, NoView, FALSE, TRUE)
    /\ UNCHANGED <<game_selected_group_enabled, packfile_contents_read_only, uiRest>>

TabNext ==
    \/ open_packedfile_in_tab
    \/ packed_file_view_hide
    \/ update_views_names

TabSpec == TabInit /\ [][TabNext]_vars

(***************************************************************************)
(* Claims about reference resolution.  They are stated on the call that    *)
(* has just returned (ref_call.done), against the views it scanned.        *)
(***************************************************************************)
\* The position of a field in the referenced table's definition.
FieldIndex(field) == CHOOSE i \in DOMAIN TargetFields : TargetFields[i] = field

\* The rows of the open copies of the table a reference points to, as
\* <<view, row>> in the order in which they are scanned.
OpenCopyRows(reference) ==
    {vr \in (DOMAIN open_packedfiles) \X (1..TotalRows(open_packedfiles)) :
        /\ open_packedfiles[vr[1]].view = "Table"
        /\ IsReferencedTablePath(open_packedfiles[vr[1]].path, reference.table)
        /\ vr[2] \in DOMAIN open_packedfiles[vr[1]].rows}

KeyOfRow(reference, vr) == open_packedfiles[vr[1]].rows[vr[2]][FieldIndex(reference.column)]

RowsWithKey(reference, key) == {vr \in OpenCopyRows(reference) : KeyOfRow(reference, vr) = key}

ScannedBefore(a, b) == a[1] < b[1] \/ (a[1] = b[1] /\ a[2] < b[2])

LastRowWithKey(reference, key) ==
    CHOOSE vr \in RowsWithKey(reference, key) :
        \A other \in RowsWithKey(reference, key) \ {vr} : ScannedBefore(other, vr)

OpenKeys(reference) == {KeyOfRow(reference, vr) : vr \in OpenCopyRows(reference)}

ReturnedOk == ref_call.done /\ ref_call.result.kind = "Ok"

\* C1: for every reference field and every key that the dependency-sourced
\* data and an open copy of the referenced table both hold, the returned
\* DependencyData maps the key to the lookup string of a row of the open copy
\* (the open copy's value replaces the dependency value).
C1_OpenTablesTakePrecedence ==
    ReturnedOk =>
        \A index \in DOMAIN reference_data :
            index \in DOMAIN ref_call.response.data =>
                \A key \in DOMAIN ref_call.response.data[index].data \cap OpenKeys(reference_data[index]) :
                    /\ index \in DOMAIN ref_call.result.data
                    /\ key \in DOMAIN ref_call.result.data[index].data
                    /\ \E vr \in RowsWithKey(reference_data[index], key) :
                          ref_call.result.data[index].data[key] =
                              LookupValue(open_packedfiles[vr[1]], vr[2], reference_data[index].lookup)

\* C1 witness: the dependency data says Foo for K1, the open copy says Bar,
\* and the call returned Bar.
C1_Witness ==
    /\ ReturnedOk
    /\ 0 \in DOMAIN ref_call.response.data
    /\ K1 \in DOMAIN ref_call.response.data[0].data
    /\ ref_call.response.data[0].data[K1] = Foo
    /\ K1 \in OpenKeys(reference_data[0])
    /\ ref_call.result.data[0].data[K1] = Bar

\* The lookup string the specification describes: the row's values in the
\* configured lookup columns, in the configured order, space-joined.
ConfiguredLookup(vr, lookup) ==
    Join([j \in 1..Len(lookup.columns) |->
            open_packedfiles[vr[1]].rows[vr[2]][FieldIndex(lookup.columns[j])]], Space)

\* C7: for a reference with configured lookup columns, the lookup string of
\* each key is the space-joined sequence of the matching row's values in
\* exactly those columns, in the configured order.
C7_LookupInConfiguredOrder ==
    ReturnedOk =>
        \A index \in DOMAIN reference_data \cap DOMAIN ref_call.result.data :
            reference_data[index].lookup.some =>
                \A key \in OpenKeys(reference_data[index]) :
                    ref_call.result.data[index].data[key] =
                        ConfiguredLookup(LastRowWithKey(reference_data[index], key),
                                         reference_data[index].lookup)

\* C8: when several scanned rows carry the same key, no error is raised (the
\* call fails only when the backend answered with an error) and the entry
\* kept for the key is the one built from the last row scanned.
C8_LastScannedRowWins ==
    ref_call.done =>
        /\ (ref_call.response.kind # "Error" => ref_call.result.kind = "Ok")
        /\ ref_call.result.kind = "Ok" =>
              \A index \in DOMAIN reference_data \cap DOMAIN ref_call.result.data :
                  \A key \in OpenKeys(reference_data[index]) :
                      LET last == LastRowWithKey(reference_data[index], key) IN
                      ref_call.result.data[index].data[key] =
                          LookupValue(open_packedfiles[last[1]], last[2], reference_data[index].lookup)

\* C8 witness: two scanned rows carry K1 with different names, and the entry
\* returned is the one of the later row.
C8_Witness ==
    /\ ReturnedOk
    /\ 0 \in DOMAIN ref_call.result.data
    /\ reference_data[0].lookup = Lookup(<<ColName>>)
    /\ \E a, b \in RowsWithKey(reference_data[0], K1) :
          /\ ScannedBefore(a, b)
          /\ open_packedfiles[a[1]].rows[a[2]][2] = Foo
          /\ open_packedfiles[b[1]].rows[b[2]][2] = Bar
          /\ ref_call.result.data[0].data[K1] = Bar

(***************************************************************************)
(* Claims about the table view (ViewSpec).                                 *)
(***************************************************************************)
FloatColumns(table_definition) ==
    {column \in DOMAIN table_definition : table_definition[column].field_type = "F32"}

\* The view still shows the table it loaded and a Table was read back from it.
ReadBackUnedited == view_call.done /\ source.viewed_only /\ view_call.result.kind = "Ok"

\* C2: a table that was loaded into the view and read back with
\* get_table_from_view, with no edit in between, holds in every F32 field
\* exactly the float the loaded table held there.
C2_ViewingKeepsFloats ==
    ReadBackUnedited =>
        \A row \in DOMAIN source.data.entries :
        \A column \in FloatColumns(definition) :
            view_call.result.data.entries[row][column] = source.data.entries[row][column]

\* Every row has one value per field, of the field's type.
RowsMatch(rows, table_definition) ==
    \A row \in DOMAIN rows :
        /\ Len(rows[row]) = Len(table_definition)
        /\ \A i \in DOMAIN rows[row] : rows[row][i].type = table_definition[i].field_type

\* C9: every row of every Table has as many values as its Definition has
\* fields, each of its field's type; a default row (get_new_row) and the rows
\* read from the view (get_table_from_view) have that width, and a Table built
\* from a row of another width is refused with RowWidthMismatch.
C9_RowsMatchDefinition ==
    /\ Len(get_new_row(definition)) = Len(definition)
    /\ \A row \in DOMAIN table_model : Len(table_model[row]) = Len(definition)
    /\ source # NoSource => RowsMatch(source.data.entries, source.data.definition)
    /\ view_call.done =>
          /\ RowsMatch(view_call.entries, definition)
          /\ view_call.result.kind = "Ok"
          /\ RowsMatch(view_call.result.data.entries, view_call.result.data.definition)
    /\ table_call.done =>
          /\ table_call.result.kind = "Ok" <=>
                \A row \in DOMAIN table_call.rows : Len(table_call.rows[row]) = Len(definition)
          /\ table_call.result.kind = "Ok" =>
                RowsMatch(table_call.result.data.entries, table_call.result.data.definition)
          /\ table_call.result.kind # "Ok" =>
                /\ table_call.result.kind = "Err"
                /\ table_call.result.error = "RowWidthMismatch"

\* A Table of several fields was read from a view whose last row is a default row.
C9_Witness ==
    /\ view_call.done
    /\ view_call.result.kind = "Ok"
    /\ Len(definition) > 1
    /\ Len(table_model) = MaxTableRows
    /\ table_model[Len(table_model)] = get_new_row(definition)
    /\ Len(view_call.result.data.entries) = MaxTableRows

(***************************************************************************)
(* Claims about the PackFile session (SessSpec).                           *)
(***************************************************************************)
AtRest == ui.pc = "idle"
OpenReturned(outcome) == AtRest /\ operation.kind = "open" /\ operation.outcome = outcome
SaveReturned(outcome) == AtRest /\ operation.kind = "save" /\ operation.outcome = outcome

\* The last file of the list that holds an entry at the logical path x.
LastHolding(paths, x, files) ==
    paths[CHOOSE i \in DOMAIN paths :
            /\ x \in DOMAIN files[paths[i]].entries
            /\ \A j \in DOMAIN paths : j > i => x \notin DOMAIN files[paths[j]].entries]

\* C3: after a successful open of a list of PackFiles the PackFile in memory
\* holds every entry of every file of the list, and at a logical path that
\* several files hold, the entry of the last of them in the order of the list.
C3_LastLoadedWins ==
    OpenReturned("Ok") =>
        LET selected_files == operation.selected_files
            files == operation.before.disk
        IN /\ DOMAIN pack_file.entries =
                 UNION {DOMAIN files[selected_files[i]].entries : i \in DOMAIN selected_files}
           /\ \A x \in DOMAIN pack_file.entries :
                 pack_file.entries[x] = files[LastHolding(selected_files, x, files)].entries[x]

\* C3 witness: b.pack, then a.pack were opened; "p" is a.pack's although
\* b.pack comes first by load order only, and b.pack's own "r" is kept.
C3_Witness ==
    /\ OpenReturned("Ok")
    /\ operation.selected_files = <<"b.pack", "a.pack">>
    /\ disk["a.pack"].entries["p"] # disk["b.pack"].entries["p"]
    /\ pack_file.entries["p"] = disk["a.pack"].entries["p"]
    /\ "r" \in DOMAIN pack_file.entries
    /\ "q" \in DOMAIN pack_file.entries

ResponseKinds == {"PackFileInfo", "PathBuf", "Bool", "Success", "VecVecString", "Error"}

\* C4: once the handler has returned and the background thread has taken
\* every command, each request the handler sent has got exactly one response,
\* a success with its payload or an error.
C4_OneResponsePerRequest ==
    (AtRest /\ commands = <<>>) =>
        \A i \in DOMAIN requests :
            /\ Len(requests[i].responses) = 1
            /\ requests[i].responses[1] \in ResponseKinds

\* C5: when a save that started with no command pending has failed, the
\* PackFile in memory and the files on disk are what they were when the save
\* started.
C5_FailedSaveIsAtomic ==
    (SaveReturned("Err") /\ operation.quiet) =>
        /\ pack_file = operation.before.pack_file
        /\ disk = operation.before.disk

\* C6: when an open that started with no command pending has failed, the
\* PackFile in memory, the open views, the recent files, the autosave timer
\* and the files on disk are what they were when the open was requested.
C6_FailedOpenChangesNothing ==
    (OpenReturned("Err") /\ operation.quiet) =>
        /\ pack_file = operation.before.pack_file
        /\ open_packedfiles = operation.before.open_packedfiles
        /\ recent_files = operation.before.recent_files
        /\ timer_backup_autosave = operation.before.timer_backup_autosave
        /\ disk = operation.before.disk

\* The phase of the session: the main window is disabled while a PackFile is
\* loaded or saved.
Phase ==
    IF ~main_window_enabled
    THEN IF operation.kind = "save" THEN "Saving" ELSE "Loading"
    ELSE IF packfile_actions_enabled THEN "Ready" ELSE "Unopened"

\* C10: an open or a save that has returned has left Loading or Saving: when
\* no handler runs the session is Unopened or Ready.
C10_NeverStuck ==
    AtRest => Phase \in {"Unopened", "Ready"}

(***************************************************************************)
(* Claims about the table codec.                                           *)
(***************************************************************************)
AbsentOptionalIn(table) ==
    \E row \in DOMAIN table.entries : \E column \in DOMAIN table.entries[row] :
        /\ table.entries[row][column].type \in OptionalTypes
        /\ table.entries[row][column].value = ""

PresentOptionalIn(table) ==
    \E row \in DOMAIN table.entries : \E column \in DOMAIN table.entries[row] :
        /\ table.entries[row][column].type \in OptionalTypes
        /\ table.entries[row][column].value # ""

DeclaredCount == decode_unsigned(SubSeq(codec_bytes.data, 5, 6))
BytesAfterCount == Len(codec_bytes.data) - 6
SequenceCutShort ==
    /\ codec_bytes.definition = CodecSequence
    /\ Len(codec_bytes.data) >= 6
    /\ decode_unsigned(SubSeq(codec_bytes.data, 1, 4)) >= 1
    /\ DeclaredCount * 4 > BytesAfterCount

\* C14: when the declared count of a sequence needs more bytes than are left,
\* decoding fails with SequenceLengthMismatch: no table comes back, neither
\* with a shorter sequence nor with later fields read from the bytes left.
C14_SequenceLengthMismatch ==
    (codec_decoded.done /\ SequenceCutShort) =>
        (~codec_decoded.result.ok /\ codec_decoded.result.reason = "SequenceLengthMismatch")

\* Three sub-tables declared, the bytes of two and one more byte there.
C14_Witness ==
    /\ codec_decoded.done
    /\ SequenceCutShort
    /\ DeclaredCount = 3
    /\ BytesAfterCount = 9


OptimizeReturned == AtRest /\ operation.kind = "optimize" /\ operation.outcome = "Ok"

\* C13: after Optimize an entry is gone exactly when it was byte for byte the
\* reference's entry at its path or an empty DB table; every other entry is
\* there with its bytes; and the paths deleted from the tree are exactly the
\* paths of the entries that are gone.
C13_OptimizeRemovesIdentical ==
    OptimizeReturned =>
        LET before == operation.before.pack_file.entries
            gone == DOMAIN before \ DOMAIN pack_file.entries
        IN /\ DOMAIN pack_file.entries \subseteq DOMAIN before
           /\ \A x \in DOMAIN before :
                 x \in gone <=>
                     \/ x \in DOMAIN VanillaData /\ before[x] = VanillaData[x]
                     \/ before[x] = EmptyTable
           /\ \A x \in DOMAIN pack_file.entries : pack_file.entries[x] = before[x]
           /\ operation.deleted = {[type |-> "File", path |-> x] : x \in gone}

\* C13 witness: "p" was the reference's entry and is gone, "q" differed from
\* its counterpart by a byte and is kept.
C13_Witness ==
    /\ OptimizeReturned
    /\ operation.before.pack_file.entries["p"] = VanillaData["p"]
    /\ "q" \in DOMAIN pack_file.entries
    /\ pack_file.entries["q"] # VanillaData["q"]
    /\ "p" \notin DOMAIN pack_file.entries

(***************************************************************************)
(* Claims about lazy materialization (CacheSpec).                          *)
(***************************************************************************)
Returned(r) == readers[r].pc = "returned"

LoadedMap(loaded, file, defaults) ==
    /\ DOMAIN loaded = DOMAIN defaults
    /\ \A key \in DOMAIN defaults :
          loaded[key] = IF key \in DOMAIN file THEN file[key] ELSE defaults[key]

\* C16: after a successful load each of the three maps has the keys of
\* Settings::new() and no others, with the file's value for every key the
\* file holds and the default for every other key.
C16_LoadKeepsDefaultKeys ==
    (settings_call.kind = "load" /\ settings_call.ok) =>
        /\ LoadedMap(settings.paths, settings_file.settings.paths, SettingsNew.paths)
        /\ LoadedMap(settings.settings_string, settings_file.settings.settings_string,
                     SettingsNew.settings_string)
        /\ LoadedMap(settings.settings_bool, settings_file.settings.settings_bool,
                     SettingsNew.settings_bool)

\* C16 witness: the file loaded had an outdated key, lacked a default key and
\* held a value other than the default.
C16_Witness ==
    /\ settings_call.kind = "load" /\ settings_call.ok
    /\ "theme" \in DOMAIN settings_file.settings.settings_string
    /\ "recent_files" \notin DOMAIN settings_file.settings.settings_string
    /\ settings_file.settings.settings_string["language"] # SettingsNew.settings_string["language"]
    /\ "rome_1" \in DOMAIN settings_file.settings.paths
    /\ settings_file.settings.settings_bool["use_dark_theme"]


\* C17: starting from the default settings and with every save successful,
\* after any calls of update_recent_files the list holds at most ten paths,
\* none of them twice, the path passed last first and the others in the
\* order they were last passed, the most recent first.
C17_RecentFilesMostRecentFirst ==
    (/\ settings_call.kind = "update_recent_files"
     /\ settings_call.from_defaults
     /\ settings_call.persisted) =>
        LET list == get_recent_files(settings).list
            passed == settings_call.passed
        IN
        /\ get_recent_files(settings).ok
        /\ Len(list) <= RecentFilesLimit
        /\ \A i, j \in DOMAIN list : list[i] = list[j] => i = j
        /\ list[1] = passed[1]
        /\ list = SubSeq(passed, 1, IF Len(passed) < RecentFilesLimit
                                    THEN Len(passed) ELSE RecentFilesLimit)
        /\ settings_file = SettingsFile(settings)

\* C17 witness: more than ten paths were passed, one of them again after it
\* had left the list, and every save succeeded.
C17_Witness ==
    /\ settings_call.kind = "update_recent_files"
    /\ settings_call.from_defaults
    /\ settings_call.persisted
    /\ Len(settings_call.passed) > RecentFilesLimit
    /\ settings_call.repeats > 0
    /\ Len(get_recent_files(settings).list) = RecentFilesLimit
    /\ get_recent_files(settings).list[1] = RecentPath(1)


IsDBTable(path) == path # <<>> /\ to_lowercase(path[1]) = "db"
IsLocFile(path) == path # <<>> /\ ends_with_loc(to_lowercase(path[Len(path)]))

\* C19: when purge_that_one_specifically has enabled the Game Selected menu
\* again, no view left in the list is a DB table or a Loc file.
C19_NoSchemaViewLeft ==
    (ui_call.kind = "purge_that_one_specifically" /\ ui_call.enabled) =>
        \A i \in DOMAIN open_packedfiles :
            /\ ~IsDBTable(open_packedfiles[i].path)
            /\ ~IsLocFile(open_packedfiles[i].path)


\* C20: when save_packfile has returned, with a PackFile saved, a backend
\* error, a cancelled dialog or a view that could not be saved, the main
\* window it disabled on entry is enabled again.
C20_SaveEnablesMainWindow ==
    (SaveReturned("Ok") \/ SaveReturned("Err")) => main_window_enabled


(***************************************************************************)
(* Claims about the table view's utilities.                                *)
(***************************************************************************)
\* The rows of the model that are not listed, in their order.
RECURSIVE RowsLeft(_, _, _)
RowsLeft(model, listed, row) ==
    IF row >= Len(model) THEN <<>>
    ELSE (IF row \in listed THEN <<>> ELSE <<ItemsOfRow(model, row)>>)
         \o RowsLeft(model, listed, row + 1)

\* The packs are the maximal runs of consecutive listed rows, top to bottom,
\* each with its first row and its rows in ascending order.
MaximalRuns(packs, model, listed) ==
    /\ \A k \in DOMAIN packs :
          /\ packs[k].rows # <<>>
          /\ \A j \in DOMAIN packs[k].rows :
                /\ packs[k].first + j - 1 \in listed
                /\ packs[k].rows[j] = ItemsOfRow(model, packs[k].first + j - 1)
    /\ \A k \in 1..(Len(packs) - 1) :
          packs[k].first + Len(packs[k].rows) < packs[k + 1].first
    /\ \A row \in listed :
          \E k \in DOMAIN packs : \E j \in DOMAIN packs[k].rows : packs[k].first + j - 1 = row

\* C22: delete_rows removes from the model the listed rows and no others,
\* whatever the order of the list, and returns them as the maximal runs of
\* consecutive rows, each with its first row, from top to bottom.
C22_DeleteRowsRemovesListed ==
    delete_call.done =>
        /\ table_model = RowsLeft(delete_call.before, Range(delete_call.rows), 0)
        /\ MaximalRuns(delete_call.result, delete_call.before, Range(delete_call.rows))


\* C23: a call of sort_column on a column other than the stored one gives
\* (that column, 1); calls on the stored column give (column, 2) after
\* (column, 1), and after (column, 2) the reset state (-1, -1) with the sort
\* indicator cleared, from which the column starts at (column, 1) again; the
\* stored order is always one of -1, 0, 1, 2.
C23_SortColumnCycles ==
    /\ column_sort_state[2] \in {-1, 0, 1, 2}
    /\ (sort_call.done /\ sort_call.column \in SortColumns) =>
          /\ sort_call.before[1] # sort_call.column =>
                column_sort_state = <<sort_call.column, 1>>
          /\ sort_call.before = <<sort_call.column, 1>> =>
                column_sort_state = <<sort_call.column, 2>>
          /\ sort_call.before = <<sort_call.column, 2>> =>
                /\ column_sort_state = <<NoSortColumn, -1>>
                /\ sort_indicator = NoSortColumn

\* C23 witness: a column at (column, 2), with the sort indicator on it, was
\* clicked again and the state was reset.
C23_Witness ==
    /\ sort_call.done
    /\ sort_call.column \in SortColumns
    /\ sort_call.before = <<sort_call.column, 2>>
    /\ column_sort_state = <<NoSortColumn, -1>>
    /\ sort_indicator = NoSortColumn


(***************************************************************************)
(* Claims about the tab bar.                                               *)
(***************************************************************************)
TabCalls == {"open_packedfile", "packed_file_view_hide", "update_views_names"}

\* open_packedfile was called for a preview of a file whose view was open
\* as a full view, with a tab.
PreviewOfFullView ==
    /\ ui_call.kind = "open_packedfile"
    /\ "found" \in DOMAIN ui_call
    /\ ui_call.is_preview
    /\ ui_call.found.kind # "None"
    /\ ~ui_call.found.is_preview
    /\ ui_call.found.tab

\* The view of the file is still a full view, and no view was created.
FullViewKept ==
    /\ ~ui_call.created
    /\ IsOpen(open_packedfiles, ui_call.path)
    /\ ~open_packedfiles[ViewPosition(open_packedfiles, ui_call.path)].is_preview

\* C21 as stated: open_packedfile for a preview of a file whose view is open
\* as a full view with a tab leaves that view a full view and creates no view.
C21_PreviewKeepsFullView_Stated ==
    PreviewOfFullView => FullViewKept

\* C21: open_packedfile for a preview, and not for an external file, of a
\* file whose view is open as a full view with a tab leaves that view a full
\* view and creates no view.
C21_PreviewKeepsFullView ==
    (PreviewOfFullView /\ ~ui_call.is_external) => FullViewKept

\* C21 witness: a preview was asked for of a file open as a full view with a
\* tab, and the view is still there as a full view.
C21_Witness ==
    /\ PreviewOfFullView
    /\ ~ui_call.is_external
    /\ FullViewKept

\* C24: after update_views_names, two views with a tab and with paths that
\* are not empty and not the same have tabs of different texts.
C24_NoTabNameCollisions ==
    (ui_call.kind \in {"open_packedfile", "update_views_names"}
     /\ "named" \in DOMAIN ui_call /\ ui_call.named) =>
        \A i, j \in DOMAIN open_packedfiles :
            (/\ open_packedfiles[i].tab
             /\ open_packedfiles[j].tab
             /\ open_packedfiles[i].path # <<>>
             /\ open_packedfiles[j].path # <<>>
             /\ open_packedfiles[i].path # open_packedfiles[j].path)
            => open_packedfiles[i].text # open_packedfiles[j].text

=============================================================================
